---------------------------- MODULE Spec2Model ----------------------------
(***************************************************************************)
(* A model of the DVM miner: the vector engine (dvm_miner/engine.py) and   *)
(* the session node (dvm_miner/node.py).                                   *)
(*                                                                         *)
(* Four specifications share the variables:                                *)
(*   Spec        the node: reconnect loop, handshake, receive loop,         *)
(*               handlers, heartbeat and checkpoint tasks, shutdown;        *)
(*   FairSpec    Spec with the fairness the event loop gives the node;      *)
(*   EngineSpec  the engine driven request by request: store handler,       *)
(*               search, save_all, and a fresh engine loaded from disk;     *)
(*   ConcSpec    add_vectors and search coroutines interleaved at their     *)
(*               await points, with the worker thread inserting items.      *)
(***************************************************************************)
EXTENDS Integers, Sequences, FiniteSets, TLC

(***************************************************************************)
(* Strings that the code takes apart (shard ids, collection ids, file       *)
(* names) are sequences of one-character strings.                           *)
(***************************************************************************)
S_shard == <<"s", "h", "a", "r", "d", "_">>
S_bin == <<".", "b", "i", "n">>
S_map_json == <<"_", "m", "a", "p", ".", "j", "s", "o", "n">>
S_default == <<"d", "e", "f", "a", "u", "l", "t">>
S_empty == <<>>

\* Python's None for an Optional[str]: a value no character sequence equals.
None == <<"None">>

\* ---- bounds of the model ------------------------------------------------
\* config.embedding_dim, scaled down (config.py: 384).
EmbeddingDim == 2
\* the number of bytes the model counts as one GiB (engine.py: 1024**3).
BytesPerGiB == 6
\* how many frames the coordinator sends over the lifetime of the process.
MaxFrames == 2
\* how many connection rounds the reconnect loop is followed through.
MaxRounds == 2

\* how many times the process is started again on the same data_dir.
MaxRestarts == 1

\* how many paths under data_dir fail to be written at one time.
MaxFaults == 1

\* how many bytes int.to_bytes writes an offset in, scaled down (node.py: 8).
OffsetBytes == 1

\* hnswlib's max_elements of a shard's index, scaled down (engine.py: 1000000).
MaxElements == 2

\* ---- program constants --------------------------------------------------
\* MinerConfig.default().max_ram_gb
max_ram_gb == 4

(***************************************************************************)
(* Small helpers.                                                           *)
(***************************************************************************)
Put(f, k, v) == [x \in (DOMAIN f) \cup {k} |-> IF x = k THEN v ELSE f[x]]

EmptyMap == [x \in {} |-> 0]

RECURSIVE SumOver(_, _)
SumOver(f, S) ==
    IF S = {} THEN 0
    ELSE LET x == CHOOSE y \in S : TRUE IN f[x] + SumOver(f, S \ {x})

StartsWith(s, p) == Len(s) >= Len(p) /\ SubSeq(s, 1, Len(p)) = p

EndsWith(s, p) == Len(s) >= Len(p) /\ SubSeq(s, Len(s) - Len(p) + 1, Len(s)) = p

\* str.replace(old, ""): the non-overlapping occurrences of old, found left to
\* right, are removed; the result is not scanned again.
RECURSIVE StrRemove(_, _)
StrRemove(s, old) ==
    IF s = <<>> THEN <<>>
    ELSE IF StartsWith(s, old) THEN StrRemove(SubSeq(s, Len(old) + 1, Len(s)), old)
    ELSE <<Head(s)>> \o StrRemove(Tail(s), old)

\* the index of the last "." of a name, 0 when it has none (str.rfind + 1).
RECURSIVE RFindDot(_)
RFindDot(s) ==
    IF s = <<>> THEN 0
    ELSE IF s[Len(s)] = "." THEN Len(s)
    ELSE RFindDot(SubSeq(s, 1, Len(s) - 1))

\* pathlib's PurePath.stem: the name without its last suffix; a leading or a
\* trailing dot is no suffix.
PathStem(name) ==
    LET i == RFindDot(name)
    IN  IF i > 1 /\ i < Len(name) THEN SubSeq(name, 1, i - 1) ELSE name

\* str(n) and int(s) for the keys of the id-map in JSON.
Digits == <<"0", "1", "2", "3", "4", "5", "6", "7", "8", "9">>

RECURSIVE IntToStr(_)
IntToStr(n) ==
    IF n < 10 THEN <<Digits[n + 1]>>
    ELSE IntToStr(n \div 10) \o <<Digits[(n % 10) + 1]>>

DigitVal(ch) == (CHOOSE i \in 1..10 : Digits[i] = ch) - 1

RECURSIVE StrToInt(_)
StrToInt(s) ==
    IF Len(s) = 1 THEN DigitVal(s[1])
    ELSE 10 * StrToInt(SubSeq(s, 1, Len(s) - 1)) + DigitVal(s[Len(s)])


(***************************************************************************)
(* The vector engine (engine.py).  An engine is the record of the four      *)
(* maps of VectorEngine: indices, id_maps, next_ids and locks, each         *)
(* collection_id -> shard_id -> value.  An hnswlib index is the function    *)
(* from its labels to the unit vectors stored under them.  An ndarray is    *)
(* [shape, rows].                                                           *)
(***************************************************************************)
EmptyEngine ==
    [indices |-> EmptyMap, id_maps |-> EmptyMap, next_ids |-> EmptyMap, locks |-> EmptyMap]

max_bytes == max_ram_gb * BytesPerGiB

Dot(u, v) == SumOver([i \in DOMAIN u |-> u[i] * v[i]], DOMAIN u)

\* vectors / norms with norms[norms == 0] = 1: the unit vector v / sqrt(n2).
Normalize(v) == [v |-> v, n2 |-> IF Dot(v, v) = 0 THEN 1 ELSE Dot(v, v)]

\* a normalization that maps only the absent shard_id to "default".
_normalize_shard_id_none_only(shard_id) ==
    IF shard_id = None THEN S_default ELSE shard_id

_normalize_shard_id(shard_id) ==
    IF shard_id = None \/ shard_id = S_empty THEN S_default ELSE shard_id

\* the locks map after _get_lock: the entry is created when it is not there.
_get_lock(lk, collection_id, shard_id) ==
    LET ns == _normalize_shard_id(shard_id)
        l1 == IF collection_id \in DOMAIN lk THEN lk ELSE Put(lk, collection_id, EmptyMap)
    IN  IF ns \in DOMAIN l1[collection_id] THEN l1
        ELSE Put(l1, collection_id, Put(l1[collection_id], ns, "free"))

get_current_count(index) == Cardinality(DOMAIN index)

get_total_vectors(e) ==
    LET perColl == [c \in DOMAIN e.indices |->
                       SumOver([s \in DOMAIN e.indices[c] |-> get_current_count(e.indices[c][s])],
                               DOMAIN e.indices[c])]
    IN  SumOver(perColl, DOMAIN e.indices)

\* get_bytes_used without the factor embedding_dim * 4.
get_bytes_used_count(e) == get_total_vectors(e)

get_bytes_used(e) == get_total_vectors(e) * EmbeddingDim * 4

\* a capacity check that admits every batch.
can_accept_always(e, num_vectors) == TRUE

can_accept(e, num_vectors) ==
    get_bytes_used(e) + num_vectors * EmbeddingDim * 4 <= max_bytes

\* add_vectors, lines 105-113: the two checks made before anything changes.
add_check(vectors, doc_ids) ==
    IF vectors.shape[2] # EmbeddingDim THEN "dimension_mismatch"
    ELSE IF Len(doc_ids) # vectors.shape[1] THEN "count_mismatch"
    ELSE "ok"

\* add_vectors, lines 119-137: the collection and the shard are created.
add_prepare(e, c, ns) ==
    LET ind1 == IF c \in DOMAIN e.indices THEN e.indices ELSE Put(e.indices, c, EmptyMap)
        idm1 == IF c \in DOMAIN e.indices THEN e.id_maps ELSE Put(e.id_maps, c, EmptyMap)
        nxt1 == IF c \in DOMAIN e.indices THEN e.next_ids ELSE Put(e.next_ids, c, EmptyMap)
        fresh == ns \notin DOMAIN ind1[c]
    IN  [e EXCEPT !.indices = IF fresh THEN Put(ind1, c, Put(ind1[c], ns, EmptyMap)) ELSE ind1,
                  !.id_maps = IF fresh THEN Put(idm1, c, Put(idm1[c], ns, EmptyMap)) ELSE idm1,
                  !.next_ids = IF fresh THEN Put(nxt1, c, Put(nxt1[c], ns, 0)) ELSE nxt1]

\* hnswlib add_items, row by row in list order: a label the index holds
\* already is updated in place; a new label adds an element, and raises when
\* the index holds max_elements already, the rows before it staying inserted.
add_item_fits(index, label) == label \in DOMAIN index \/ get_current_count(index) < MaxElements

add_item(index, label, row) == Put(index, label, Normalize(row))

RECURSIVE add_items(_, _, _)
add_items(index, rows, internal_ids) ==
    IF rows = <<>> THEN [index |-> index, raised |-> FALSE]
    ELSE IF ~add_item_fits(index, Head(internal_ids)) THEN [index |-> index, raised |-> TRUE]
    ELSE add_items(add_item(index, Head(internal_ids), Head(rows)), Tail(rows), Tail(internal_ids))

\* range(start_id, start_id + n) as a list.
internal_ids_of(start_id, n) == [i \in 1..n |-> start_id + i - 1]

\* add_vectors with the counter advanced by one for a batch.
add_finish_by_one(e, c, ns, ids, doc_ids) ==
    LET old == e.id_maps[c][ns]
        new == [k \in (DOMAIN old) \cup {ids[i] : i \in DOMAIN ids} |->
                    IF \E i \in DOMAIN ids : ids[i] = k
                    THEN doc_ids[CHOOSE i \in DOMAIN ids : ids[i] = k]
                    ELSE old[k]]
    IN  [e EXCEPT !.id_maps[c][ns] = new,
                  !.next_ids[c][ns] = @ + 1]

\* add_vectors, lines 159-164: the id map and the counter, after the insert.
add_finish(e, c, ns, ids, doc_ids) ==
    LET old == e.id_maps[c][ns]
        new == [k \in (DOMAIN old) \cup {ids[i] : i \in DOMAIN ids} |->
                    IF \E i \in DOMAIN ids : ids[i] = k
                    THEN doc_ids[CHOOSE i \in DOMAIN ids : ids[i] = k]
                    ELSE old[k]]
    IN  [e EXCEPT !.id_maps[c][ns] = new,
                  !.next_ids[c][ns] = @ + Len(doc_ids)]

\* whether the shard has its counter and its id map (a KeyError otherwise).
shard_keyed(e, c, ns) ==
    /\ c \in DOMAIN e.next_ids /\ ns \in DOMAIN e.next_ids[c]
    /\ c \in DOMAIN e.id_maps /\ ns \in DOMAIN e.id_maps[c]

\* add_vectors with the two checks made after the lock is taken and the
\* shard is created.
add_vectors_late_check(e, c, vectors, doc_ids, shard_id) ==
    LET ns == _normalize_shard_id(shard_id)
        chk == add_check(vectors, doc_ids)
        e1 == [e EXCEPT !.locks = _get_lock(e.locks, c, shard_id)]
        e2 == add_prepare(e1, c, ns)
        ids == internal_ids_of(e2.next_ids[c][ns], Len(doc_ids))
        ins == add_items(e2.indices[c][ns], vectors.rows, ids)
        e3 == [e2 EXCEPT !.indices[c][ns] = ins.index]
    IN  IF chk # "ok" THEN [outcome |-> chk, engine |-> e2]
        ELSE IF ~shard_keyed(e2, c, ns) THEN [outcome |-> "key_error", engine |-> e2]
        ELSE IF ins.raised THEN [outcome |-> "index_full", engine |-> e3]
        ELSE [outcome |-> "ok", engine |-> add_finish(e3, c, ns, ids, doc_ids)]

\* add_vectors as one call that nothing interleaves with: the outcome
\* ("ok" or the exception) and the engine after it.
add_vectors(e, c, vectors, doc_ids, shard_id) ==
    LET ns == _normalize_shard_id(shard_id)
        chk == add_check(vectors, doc_ids)
        e1 == [e EXCEPT !.locks = _get_lock(e.locks, c, shard_id)]
        e2 == add_prepare(e1, c, ns)
        ids == internal_ids_of(e2.next_ids[c][ns], Len(doc_ids))
        ins == add_items(e2.indices[c][ns], vectors.rows, ids)
        e3 == [e2 EXCEPT !.indices[c][ns] = ins.index]
    IN  IF chk # "ok" THEN [outcome |-> chk, engine |-> e]
        ELSE IF ~shard_keyed(e2, c, ns) THEN [outcome |-> "key_error", engine |-> e2]
        ELSE IF ins.raised THEN [outcome |-> "index_full", engine |-> e3]
        ELSE [outcome |-> "ok", engine |-> add_finish(e3, c, ns, ids, doc_ids)]

\* ---- search ---------------------------------------------------------------
\* the similarity 1 - distance of a stored unit vector and the unit query:
\* p / sqrt(r2), kept as the pair so that scores compare exactly.
Similarity(stored, q) == [p |-> Dot(stored.v, q.v), r2 |-> stored.n2 * q.n2]

SignedSquare(x) == IF x >= 0 THEN x * x ELSE -(x * x)

ScoreLeq(a, b) == SignedSquare(a.p) * b.r2 <= SignedSquare(b.p) * a.r2

\* hnswlib knn_query(q, k): every list of k labels, nearest first, that holds
\* k nearest elements (ties in any order).
knn_query(index, q, k) ==
    {ls \in [1..k -> DOMAIN index] :
        /\ \A i, j \in 1..k : i # j => ls[i] # ls[j]
        /\ \A i, j \in 1..k : i < j => ScoreLeq(Similarity(index[ls[j]], q), Similarity(index[ls[i]], q))
        /\ \A l \in DOMAIN index : (\A i \in 1..k : ls[i] # l) =>
               \A i \in 1..k : ScoreLeq(Similarity(index[l], q), Similarity(index[ls[i]], q))}

Min2(a, b) == IF a <= b THEN a ELSE b

\* search, lines 225-238: labels to (doc_id, similarity); a label whose doc_id
\* is missing or empty is skipped.
RECURSIVE to_results(_, _, _, _)
to_results(labels, index, id_map, q) ==
    IF labels = <<>> THEN <<>>
    ELSE LET l == Head(labels)
             rest == to_results(Tail(labels), index, id_map, q)
         IN  IF l \in DOMAIN id_map /\ id_map[l] # ""
             THEN <<[doc_id |-> id_map[l], score |-> Similarity(index[l], q)]>> \o rest
             ELSE rest

\* results.sort(key=score, reverse=True): a stable sort, the higher score
\* first.
RECURSIVE InsertByScore(_, _)
InsertByScore(x, sorted) ==
    IF sorted = <<>> THEN <<x>>
    ELSE IF ScoreLeq(Head(sorted).score, x.score) THEN <<x>> \o sorted
    ELSE <<Head(sorted)>> \o InsertByScore(x, Tail(sorted))

RECURSIVE sort_results(_)
sort_results(results) ==
    IF results = <<>> THEN <<>>
    ELSE InsertByScore(Head(results), sort_results(Tail(results)))

\* search's early returns without the test of the query's norm.
search_path_no_norm(e, c, query_vector, k, shard_id) ==
    LET ns == _normalize_shard_id(shard_id)
    IN  IF c \notin DOMAIN e.indices THEN "no_collection"
        ELSE IF ns \notin DOMAIN e.indices[c] THEN "no_shard"
        ELSE IF k <= 0 THEN "k_not_positive"
        ELSE IF get_current_count(e.indices[c][ns]) = 0 THEN "empty_shard"
        ELSE "query"

\* which of search's early returns applies, "query" when none does.
search_path(e, c, query_vector, k, shard_id) ==
    LET ns == _normalize_shard_id(shard_id)
    IN  IF c \notin DOMAIN e.indices THEN "no_collection"
        ELSE IF ns \notin DOMAIN e.indices[c] THEN "no_shard"
        ELSE IF k <= 0 THEN "k_not_positive"
        ELSE IF get_current_count(e.indices[c][ns]) = 0 THEN "empty_shard"
        ELSE IF Dot(query_vector, query_vector) = 0 THEN "zero_norm"
        ELSE "query"

\* search asking the index for every element it holds instead of
\* min(k, count).
search_unbounded(e, c, query_vector, k, shard_id) ==
    LET ns == _normalize_shard_id(shard_id)
        index == e.indices[c][ns]
        q == Normalize(query_vector)
    IN  IF search_path(e, c, query_vector, k, shard_id) # "query" THEN {<<>>}
        ELSE {sort_results(to_results(ls, index, e.id_maps[c][ns], q)) :
                 ls \in knn_query(index, q, get_current_count(index))}

\* search as one call: the set of result lists it may return.
search(e, c, query_vector, k, shard_id) ==
    LET ns == _normalize_shard_id(shard_id)
        index == e.indices[c][ns]
        q == Normalize(query_vector)
    IN  IF search_path(e, c, query_vector, k, shard_id) # "query" THEN {<<>>}
        ELSE {sort_results(to_results(ls, index, e.id_maps[c][ns], q)) :
                 ls \in knn_query(index, q, Min2(k, get_current_count(index)))}

\* the engine after a search: the shard's lock exists once the lock is taken.
search_engine(e, c, k, shard_id) ==
    LET ns == _normalize_shard_id(shard_id)
    IN  IF c \in DOMAIN e.indices /\ ns \in DOMAIN e.indices[c] /\ k > 0
        THEN [e EXCEPT !.locks = _get_lock(e.locks, c, shard_id)]
        ELSE e

(***************************************************************************)
(* Persistence.  The disk under data_dir is [files, dirs]: files maps       *)
(* <<directory, file name>> to a content, the directory being a collection  *)
(* directory's name or the empty string for data_dir itself (data_dir / ""  *)
(* is data_dir); dirs are the sub-directories of data_dir; faults maps a    *)
(* path to how a write to it fails: "denied" (the write raises and leaves   *)
(* the file as it was) or "partial" (the write raises and leaves a file     *)
(* that cannot be read back).  A path that is not in faults is written       *)
(* without error.                                                           *)
(***************************************************************************)
EmptyDisk == [files |-> EmptyMap, dirs |-> {}, faults |-> EmptyMap]

\* what a write to path p that raises leaves of the files.
failed_write(d, p) ==
    IF d.faults[p] = "partial" THEN Put(d.files, p, [kind |-> "partial"]) ELSE d.files

ShardBinName(shard_id) == S_shard \o shard_id \o S_bin

ShardMapName(shard_id) == S_shard \o shard_id \o S_map_json

\* json.dump of {"id_map": ..., "next_id": ...}: the integer keys become strings.
MapData(id_map, next_id) ==
    [kind |-> "json",
     id_map |-> [k \in {IntToStr(i) : i \in DOMAIN id_map} |-> id_map[StrToInt(k)]],
     next_id |-> next_id]

\* save_collection, the body of the loop for one shard: the try block ends
\* at the first statement that raises (save_index, the lookup of the id map,
\* the write of the map file) and the except branch logs and goes on.
save_shard(e, d, c, shard_id) ==
    LET bin_path == <<c, ShardBinName(shard_id)>>
        map_path == <<c, ShardMapName(shard_id)>>
        withBin == Put(d.files, bin_path, [kind |-> "bin", items |-> e.indices[c][shard_id]])
        next_id == IF shard_id \in DOMAIN e.next_ids[c] THEN e.next_ids[c][shard_id] ELSE 0
    IN  IF bin_path \in DOMAIN d.faults
        THEN [d EXCEPT !.files = failed_write(d, bin_path)]
        ELSE IF ~(c \in DOMAIN e.id_maps /\ shard_id \in DOMAIN e.id_maps[c])
        THEN [d EXCEPT !.files = withBin]
        ELSE IF map_path \in DOMAIN d.faults
        THEN [d EXCEPT !.files = failed_write([d EXCEPT !.files = withBin], map_path)]
        ELSE [d EXCEPT !.files = Put(withBin, map_path,
                                     MapData(e.id_maps[c][shard_id], next_id))]

\* whether the try block of save_collection ends in its except branch for
\* the shard: a write raises, or the shard has no id map (a KeyError).
save_shard_fails(e, d, c, shard_id) ==
    \/ <<c, ShardBinName(shard_id)>> \in DOMAIN d.faults
    \/ ~(c \in DOMAIN e.id_maps /\ shard_id \in DOMAIN e.id_maps[c])
    \/ <<c, ShardMapName(shard_id)>> \in DOMAIN d.faults

\* the loop of save_collection with the try around the whole loop: the first
\* shard whose write raises ends it.
RECURSIVE save_shards_abort(_, _, _, _)
save_shards_abort(e, d, c, shards) ==
    IF shards = {} THEN d
    ELSE LET s == CHOOSE x \in shards : TRUE
             failed == \/ <<c, ShardBinName(s)>> \in DOMAIN d.faults
                       \/ <<c, ShardMapName(s)>> \in DOMAIN d.faults
         IN  IF failed THEN save_shard(e, d, c, s)
             ELSE save_shards_abort(e, save_shard(e, d, c, s), c, shards \ {s})

RECURSIVE save_shards(_, _, _, _)
save_shards(e, d, c, shards) ==
    IF shards = {} THEN d
    ELSE LET s == CHOOSE x \in shards : TRUE
         IN  save_shards(e, save_shard(e, d, c, s), c, shards \ {s})

save_collection(e, d, c) ==
    IF c \notin DOMAIN e.indices THEN d
    ELSE save_shards(e, [d EXCEPT !.dirs = IF c = S_empty THEN @ ELSE @ \cup {c}],
                     c, DOMAIN e.indices[c])

RECURSIVE save_collections(_, _, _)
save_collections(e, d, colls) ==
    IF colls = {} THEN d
    ELSE LET c == CHOOSE x \in colls : TRUE
         IN  save_collections(e, save_collection(e, d, c), colls \ {c})

save_all(e, d) == save_collections(e, d, DOMAIN e.indices)

\* load_all.  A candidate is an index file the two loops find: the legacy loop
\* globs data_dir for *.bin, the second loop globs each sub-directory for
\* shard_*.bin and derives the shard id from the file's stem.
shard_id_of(name) == StrRemove(StrRemove(PathStem(name), S_shard), S_bin)

LegacyCandidates(d) ==
    {[stage |-> "legacy", c |-> PathStem(f[2]), s |-> S_default, bin |-> f,
      map |-> <<S_empty, PathStem(f[2]) \o S_map_json>>] :
        f \in {g \in DOMAIN d.files : g[1] = S_empty /\ EndsWith(g[2], S_bin)}}

ShardCandidates(d) ==
    {[stage |-> "shard", c |-> f[1], s |-> shard_id_of(f[2]), bin |-> f,
      map |-> <<f[1], ShardMapName(shard_id_of(f[2]))>>] :
        f \in {g \in DOMAIN d.files :
                  g[1] \in d.dirs /\ StartsWith(g[2], S_shard) /\ EndsWith(g[2], S_bin)
                    /\ Len(g[2]) >= Len(S_shard) + Len(S_bin)}}

\* hnswlib load_index succeeds on a file save_index wrote, and raises on a
\* file a failed write left.
Loadable(d, cand) == d.files[cand.bin].kind = "bin"

\* json.load and map_data["id_map"] succeed on a file json.dump wrote.
MapReadable(d, cand) == d.files[cand.map].kind = "json"

\* {int(k): v for k, v in map_data["id_map"].items()}
LoadedIdMap(d, cand) ==
    LET m == d.files[cand.map].id_map
    IN  [i \in {StrToInt(k) : k \in DOMAIN m} |-> m[IntToStr(i)]]

LoadedNextId(d, cand) == d.files[cand.map].next_id

\* the body of either loop of load_all for one index file.  When load_index
\* raises nothing is changed.  Otherwise the index is stored under
\* (collection, shard) and then the map file is read: absent, the id map is
\* empty and the counter 0; when reading it raises, the except branch logs
\* and the shard keeps its new index with whatever id map and counter it had
\* (none, when nothing was loaded for it before).
load_one(e, d, cand) ==
    LET c == cand.c
        s == cand.s
        fresh == c \notin DOMAIN e.indices
        e1 == [e EXCEPT !.indices = IF fresh THEN Put(@, c, EmptyMap) ELSE @,
                        !.id_maps = IF fresh THEN Put(@, c, EmptyMap) ELSE @,
                        !.next_ids = IF fresh THEN Put(@, c, EmptyMap) ELSE @]
        e2 == [e1 EXCEPT !.indices = Put(@, c, Put(@[c], s, d.files[cand.bin].items))]
    IN  IF ~Loadable(d, cand) THEN e
        ELSE IF cand.map \notin DOMAIN d.files
        THEN [e2 EXCEPT !.id_maps = Put(@, c, Put(@[c], s, EmptyMap)),
                        !.next_ids = Put(@, c, Put(@[c], s, 0))]
        ELSE IF ~MapReadable(d, cand) THEN e2
        ELSE [e2 EXCEPT !.id_maps = Put(@, c, Put(@[c], s, LoadedIdMap(d, cand))),
                        !.next_ids = Put(@, c, Put(@[c], s, LoadedNextId(d, cand)))]

\* the lists a glob may give the files of S in.
Orders(S) ==
    {o \in [1..Cardinality(S) -> S] : \A i, j \in 1..Cardinality(S) : i # j => o[i] # o[j]}

\* the orders load_all may meet the index files in: the legacy loop runs
\* first; within a loop the order is the directory's, which nothing fixes.
LoadOrders(d) ==
    {l \o n : l \in Orders(LegacyCandidates(d)), n \in Orders(ShardCandidates(d))}

RECURSIVE load_seq(_, _, _)
load_seq(e, d, order) ==
    IF order = <<>> THEN e
    ELSE load_seq(load_one(e, d, Head(order)), d, Tail(order))

\* the engine load_all builds on a fresh VectorEngine, for one order of loading.
load_all(d, order) == load_seq(EmptyEngine, d, order)

(***************************************************************************)
(* The wire codec (shared/protocol/serialization.py) and the request        *)
(* handlers of the node (node.py).  A frame is a record; a field the frame  *)
(* does not carry is not in its domain.  A payload is what base64 + zstd    *)
(* carry: [valid, floats], valid being whether it decodes at all.           *)
(***************************************************************************)
node_id == "n1"

RECURSIVE Flatten(_)
Flatten(rows) == IF rows = <<>> THEN <<>> ELSE Head(rows) \o Flatten(Tail(rows))

\* encode_vectors: the payload and the shape (n, dim).
encode_vectors(rows) ==
    [b64 |-> [valid |-> TRUE, floats |-> Flatten(rows)],
     shape |-> <<Len(rows), IF rows = <<>> THEN 0 ELSE Len(rows[1])>>]

\* decode_vectors: frombuffer(...).reshape(shape); raises on a payload that
\* does not decode and on a shape that does not fit the data.
decode_vectors(data_b64, shape) ==
    IF ~data_b64.valid \/ shape[1] * shape[2] # Len(data_b64.floats)
    THEN [raised |-> TRUE]
    ELSE [raised |-> FALSE,
          array |-> [shape |-> shape,
                     rows |-> [i \in 1..shape[1] |->
                                 SubSeq(data_b64.floats, (i - 1) * shape[2] + 1, i * shape[2])]]]

\* StoreRequest(**message_dict): the required fields.
StoreRequestFields == {"request_id", "collection_id", "doc_ids", "vectors_b64", "shape"}

\* str(e), a text as None is one: the tuple of the exception's name.
ErrorText(exc) == <<exc>>

StoreResponse(request_id, stored_count, status, error_message) ==
    [type |-> "store_response", request_id |-> request_id, node_id |-> node_id,
     stored_count |-> stored_count, status |-> status, error_message |-> error_message]

\* a request_id that is a JSON number, which no str field accepts.
Number_7 == <<"int", "7">>

\* a response model that takes any request_id.
ValidRequestId_optional(request_id) == TRUE

\* pydantic: request_id is declared str in StoreResponse and SearchResponse,
\* so a reply built with request_id=None, or with a number, does not validate.
ValidRequestId(request_id) == request_id # None /\ request_id # Number_7

\* ErrorResponse.request_id is Optional[str]: None validates, a number does not.
ValidOptionalRequestId(request_id) == request_id # Number_7

\* message_dict.get("request_id")
GetRequestId(m) == IF "request_id" \in DOMAIN m THEN m.request_id ELSE None

\* the except branch of _handle_store: the status=error reply carrying str(e),
\* unless building that reply raises in its turn.
store_except(e1, m, exc) ==
    IF ValidRequestId(GetRequestId(m))
    THEN [raised |-> FALSE, exc |-> exc, engine |-> e1,
          response |-> StoreResponse(GetRequestId(m), 0, "error", ErrorText(exc))]
    ELSE [raised |-> TRUE, exc |-> exc, engine |-> e1]

\* _handle_store: the reply and the engine after it; exc is the exception the
\* try block ended with ("none" when it returned), raised is whether the
\* handler itself ends with an exception.
_handle_store(e, m) ==
    LET parsed == StoreRequestFields \subseteq DOMAIN m /\ m.request_id # Number_7
        dec == decode_vectors(m.vectors_b64, m.shape)
        shard_id == IF "shard_id" \in DOMAIN m THEN m.shard_id ELSE None
        add == add_vectors(e, m.collection_id, dec.array, m.doc_ids, shard_id)
    IN  IF ~parsed THEN store_except(e, m, "validation_error")
        ELSE IF dec.raised THEN store_except(e, m, "decode_error")
        ELSE IF ~can_accept(e, Len(m.doc_ids))
        THEN [raised |-> FALSE, exc |-> "none", engine |-> e,
              response |-> StoreResponse(m.request_id, 0, "full", ErrorText("Storage capacity exceeded"))]
        ELSE IF add.outcome # "ok" THEN store_except(add.engine, m, add.outcome)
        ELSE [raised |-> FALSE, exc |-> "none", engine |-> add.engine,
              response |-> StoreResponse(m.request_id, Len(m.doc_ids), "ok", None)]

\* decode_query_vector: frombuffer(...).reshape(shape) with shape (dim,).
decode_query_vector(data_b64, shape) ==
    IF ~data_b64.valid \/ shape[1] # Len(data_b64.floats)
    THEN [raised |-> TRUE]
    ELSE [raised |-> FALSE, vector |-> data_b64.floats]

encode_query_vector(vector) ==
    [b64 |-> [valid |-> TRUE, floats |-> vector], shape |-> <<Len(vector)>>]

\* SearchRequest(**message_dict): the required fields; top_k defaults to 10.
SearchRequestFields == {"request_id", "collection_id", "query_b64", "shape"}

DefaultTopK == 10

\* the default of getattr(request, 'top_k', 50) in _handle_search.
GetattrTopK == 50

\* k = getattr(request, 'top_k', 50): request is a SearchRequest, which has
\* the attribute top_k whatever the frame carried (the field's default when
\* the frame has none), so the default of getattr is never taken.
search_k(m) == IF "top_k" \in DOMAIN m THEN m.top_k ELSE DefaultTopK

SearchResponse(request_id, results) ==
    [type |-> "search_response", request_id |-> request_id, node_id |-> node_id,
     results |-> results]

\* the except branch of _handle_search: the empty reply, unless building it
\* raises in its turn.
search_except(e2, m, exc) ==
    IF ValidRequestId(GetRequestId(m))
    THEN {[raised |-> FALSE, exc |-> exc, engine |-> e2,
           response |-> SearchResponse(GetRequestId(m), <<>>)]}
    ELSE {[raised |-> TRUE, exc |-> exc, engine |-> e2]}

\* _handle_search: the set of (reply, engine) it may end with, the index
\* being free to order ties; exc is the exception the try block ended with
\* ("none" when it returned), raised is whether the handler itself ends with
\* an exception.
_handle_search(e, m) ==
    LET parsed == SearchRequestFields \subseteq DOMAIN m /\ m.request_id # Number_7
        dec == decode_query_vector(m.query_b64, m.shape)
        shard_id == IF "shard_id" \in DOMAIN m THEN m.shard_id ELSE None
        k == search_k(m)
        ns == _normalize_shard_id(shard_id)
        e1 == search_engine(e, m.collection_id, k, shard_id)
        path == search_path(e, m.collection_id, dec.vector, k, shard_id)
    IN  IF ~parsed THEN search_except(e, m, "validation_error")
        ELSE IF dec.raised THEN search_except(e, m, "decode_error")
        ELSE IF Len(dec.vector) # EmbeddingDim
        THEN IF path # "query"
             THEN {[raised |-> FALSE, exc |-> "none", engine |-> e1,
                    response |-> SearchResponse(m.request_id, <<>>)]}
             ELSE search_except(e1, m, "dimension_mismatch")
        ELSE IF path = "query" /\ ~shard_keyed(e, m.collection_id, ns)
        THEN search_except(e1, m, "key_error")
        ELSE {[raised |-> FALSE, exc |-> "none", engine |-> e1,
               response |-> SearchResponse(m.request_id, res)] :
                 res \in search(e, m.collection_id, dec.vector, k, shard_id)}

\* ---- the PoRAM challenge (_handle_challenge) ------------------------------
\* ChallengeRequest(**message_dict): the required fields.
ChallengeRequestFields == {"challenge_id", "epoch_seed", "offsets", "chunk_size", "deadline_ms"}

ChallengeResponse(challenge_id, chunks, response_time_ms) ==
    [type |-> "challenge_response", challenge_id |-> challenge_id, chunks |-> chunks,
     response_time_ms |-> response_time_ms]

HexDigits == <<"0", "1", "2", "3", "4", "5", "6", "7", "8", "9", "a", "b", "c", "d", "e", "f">>

HexVal(ch) == (CHOOSE i \in DOMAIN HexDigits : HexDigits[i] = ch) - 1

\* bytes.fromhex: two hex digits to the byte; raises on a character that is
\* no hex digit and on an odd number of digits.
fromhex(str) ==
    IF Len(str) % 2 # 0 \/ \E i \in DOMAIN str : \A j \in DOMAIN HexDigits : HexDigits[j] # str[i]
    THEN [raised |-> TRUE]
    ELSE [raised |-> FALSE,
          bytes |-> [i \in 1..(Len(str) \div 2) |->
                        16 * HexVal(str[2 * i - 1]) + HexVal(str[2 * i])]]

RECURSIVE Pow256(_)
Pow256(n) == IF n = 0 THEN 1 ELSE 256 * Pow256(n - 1)

\* int.to_bytes(length, 'big'): the base-256 digits, the highest first;
\* raises OverflowError on a negative number and on one that does not fit.
to_bytes_fits(n) == n >= 0 /\ n < Pow256(OffsetBytes)

to_bytes(n) == [i \in 1..OffsetBytes |-> (n \div Pow256(OffsetBytes - i)) % 256]

\* the digest size of SHA-256 in bytes.
DigestSize == 32

\* hashlib.sha256(data).digest(): 32 bytes that the data determines and no
\* other data gives; the i-th byte is the pair of the data and i.
sha256(data) == [i \in 1..DigestSize |-> <<data, i>>]

\* the while loop with every digest appended whole.
RECURSIVE chunk_loop_whole(_, _, _)
chunk_loop_whole(epoch_seed, current_offset, remaining) ==
    IF remaining <= 0 THEN [raised |-> FALSE, data |-> <<>>]
    ELSE IF ~to_bytes_fits(current_offset) THEN [raised |-> TRUE]
    ELSE LET hash_bytes == sha256(epoch_seed \o to_bytes(current_offset))
             rest == chunk_loop_whole(epoch_seed, current_offset + DigestSize,
                                      remaining - DigestSize)
         IN  IF rest.raised THEN rest
             ELSE [raised |-> FALSE, data |-> hash_bytes \o rest.data]

\* the while loop of _handle_challenge for one offset: the bytes of the
\* chunk, `remaining` being chunk_size - len(chunk_data).
RECURSIVE chunk_loop(_, _, _)
chunk_loop(epoch_seed, current_offset, remaining) ==
    IF remaining <= 0 THEN [raised |-> FALSE, data |-> <<>>]
    ELSE IF ~to_bytes_fits(current_offset) THEN [raised |-> TRUE]
    ELSE LET hash_bytes == sha256(epoch_seed \o to_bytes(current_offset))
             take == IF remaining >= DigestSize THEN DigestSize ELSE remaining
             rest == chunk_loop(epoch_seed, current_offset + take, remaining - take)
         IN  IF rest.raised THEN rest
             ELSE [raised |-> FALSE, data |-> SubSeq(hash_bytes, 1, take) \o rest.data]

\* base64.b64encode(data).decode(): the payload that carries the bytes.
b64encode(data) == [valid |-> TRUE, bytes |-> data]

\* the for loop over request.offsets: the chunks in the order of the offsets.
RECURSIVE challenge_chunks(_, _, _)
challenge_chunks(epoch_seed, offsets, chunk_size) ==
    IF offsets = <<>> THEN [raised |-> FALSE, chunks |-> <<>>]
    ELSE LET chunk == chunk_loop(epoch_seed, Head(offsets), chunk_size)
             rest == challenge_chunks(epoch_seed, Tail(offsets), chunk_size)
         IN  IF chunk.raised \/ rest.raised THEN [raised |-> TRUE]
             ELSE [raised |-> FALSE, chunks |-> <<b64encode(chunk.data)>> \o rest.chunks]

\* int((time.time() - start_time) * 1000): what the clock may give.
ResponseTimes == {0, 1}

\* message_dict.get("challenge_id", "unknown")
GetChallengeId(m) == IF "challenge_id" \in DOMAIN m THEN m.challenge_id ELSE <<"unknown">>

\* the except branch of _handle_challenge: the reply without chunks, unless
\* building it raises in its turn (ChallengeResponse.challenge_id is a str).
challenge_except(m, exc) ==
    IF ValidRequestId(GetChallengeId(m))
    THEN {[raised |-> FALSE, exc |-> exc,
           response |-> ChallengeResponse(GetChallengeId(m), <<>>, 0)]}
    ELSE {[raised |-> TRUE, exc |-> exc]}

\* _handle_challenge: the replies it may end with; exc is the exception the
\* try block ended with ("none" when it returned), raised is whether the
\* handler itself ends with an exception.
_handle_challenge(m) ==
    LET parsed == ChallengeRequestFields \subseteq DOMAIN m /\ ValidRequestId(m.challenge_id)
        seed == fromhex(m.epoch_seed)
        res == challenge_chunks(seed.bytes, m.offsets, m.chunk_size)
    IN  IF ~parsed THEN challenge_except(m, "validation_error")
        ELSE IF seed.raised THEN challenge_except(m, "value_error")
        ELSE IF res.raised THEN challenge_except(m, "overflow_error")
        ELSE {[raised |-> FALSE, exc |-> "none",
               response |-> ChallengeResponse(m.challenge_id, res.chunks, t)] :
                 t \in ResponseTimes}

ErrorResponse(request_id, error_code) ==
    [type |-> "error", request_id |-> request_id, node_id |-> node_id,
     error_code |-> error_code]

\* the except branch of _handle_message: the INTERNAL_ERROR frame; when that
\* frame cannot be built the exception leaves _handle_message and nothing is
\* sent (raised).
message_except(e1, m) ==
    IF ValidOptionalRequestId(GetRequestId(m))
    THEN [out |-> <<ErrorResponse(GetRequestId(m), "INTERNAL_ERROR")>>, engine |-> e1,
          raised |-> FALSE]
    ELSE [out |-> <<>>, engine |-> e1, raised |-> TRUE]

\* json.loads(raw_message): what the text of the frame is.  A frame of the
\* model is the object its text spells; a text that spells no object is
\* [json |-> "malformed"] (no JSON at all) or [json |-> "array"] (a JSON
\* value that is no object).
json_loads(m) == IF "json" \in DOMAIN m THEN m.json ELSE "object"

\* _handle_message: the set of (frames handed to ws.send, engine) one inbound
\* frame may end with.  json.loads raises on a malformed text, message_dict
\* is then unbound and the except branch sends an error frame without
\* request_id; a value that is no object has no get(), in the try block and
\* again in the except branch, which the exception therefore leaves.
_handle_message(e, m) ==
    IF json_loads(m) = "malformed"
    THEN {[out |-> <<ErrorResponse(None, "INTERNAL_ERROR")>>, engine |-> e, raised |-> FALSE]}
    ELSE IF json_loads(m) # "object"
    THEN {[out |-> <<>>, engine |-> e, raised |-> TRUE]}
    ELSE IF m.type = "store_request"
    THEN LET r == _handle_store(e, m)
         IN  IF r.raised
             THEN {message_except(r.engine, m)}
             ELSE {[out |-> <<r.response>>, engine |-> r.engine, raised |-> FALSE]}
    ELSE IF m.type = "search_request"
    THEN {IF r.raised
          THEN message_except(r.engine, m)
          ELSE [out |-> <<r.response>>, engine |-> r.engine, raised |-> FALSE] :
             r \in _handle_search(e, m)}
    ELSE IF m.type = "challenge_request"
    THEN {IF r.raised
          THEN message_except(e, m)
          ELSE [out |-> <<r.response>>, engine |-> e, raised |-> FALSE] :
             r \in _handle_challenge(m)}
    ELSE IF ValidOptionalRequestId(GetRequestId(m))
    THEN {[out |-> <<ErrorResponse(GetRequestId(m), "INVALID_MESSAGE")>>, engine |-> e,
           raised |-> FALSE]}
    ELSE {message_except(e, m)}

\* ---- the inputs the specifications draw from -----------------------------
Axis(i) == [j \in 1..EmbeddingDim |-> IF j = i THEN 1 ELSE 0]

Coll_c == <<"c">>

Req_r == <<"r">>

Shard_x == <<"x">>

Shard_shard_x == S_shard \o <<"x">>

StoreRequest(request_id, c, shard_id, doc_ids, rows) ==
    LET enc == encode_vectors(rows)
        base == [type |-> "store_request", request_id |-> request_id, collection_id |-> c,
                 doc_ids |-> doc_ids, vectors_b64 |-> enc.b64, shape |-> enc.shape]
    IN  IF shard_id = None THEN base
        ELSE [f \in (DOMAIN base) \cup {"shard_id"} |-> IF f = "shard_id" THEN shard_id ELSE base[f]]

Batches ==
    {[doc_ids |-> <<"a">>, rows |-> <<Axis(1)>>],
     [doc_ids |-> <<"a", "b">>, rows |-> <<Axis(1), Axis(2)>>]}

EngineShards == {None, Shard_x, Shard_shard_x}

\* a store_request of one vector whose doc_id is the empty string.
BlankDocRequest == StoreRequest(Req_r, Coll_c, Shard_shard_x, <<"">>, <<Axis(2)>>)

EngineStoreRequests ==
    {StoreRequest(Req_r, Coll_c, sh, b.doc_ids, b.rows) : sh \in EngineShards, b \in Batches}
        \cup {BlankDocRequest}

Queries == {Axis(1), Axis(2)}

SearchRequest(request_id, c, shard_id, query, top_k) ==
    LET enc == encode_query_vector(query)
        base == [type |-> "search_request", request_id |-> request_id, collection_id |-> c,
                 query_b64 |-> enc.b64, shape |-> enc.shape, top_k |-> top_k]
    IN  IF shard_id = None THEN base
        ELSE [f \in (DOMAIN base) \cup {"shard_id"} |-> IF f = "shard_id" THEN shard_id ELSE base[f]]

\* the frames whose text is no JSON, and is a JSON array.
RawFrames == {[json |-> "malformed"], [json |-> "array"]}

\* a search_request that carries no top_k.
NoTopKRequest ==
    LET full == SearchRequest(Req_r, Coll_c, None, Axis(1), 1)
    IN  [f \in (DOMAIN full) \ {"top_k"} |-> full[f]]

EngineSearchRequests ==
    {SearchRequest(Req_r, Coll_c, sh, q, k) : sh \in EngineShards, q \in Queries, k \in 1..MaxElements}
        \cup {NoTopKRequest}

\* a frame without field f, and a frame with field f set to v.
Without(m, f) == [x \in (DOMAIN m) \ {f} |-> m[x]]

\* a vector one component wider than the engine's dimension.
WideAxis == [j \in 1..(EmbeddingDim + 1) |-> IF j = 1 THEN 1 ELSE 0]

ZeroVector == [j \in 1..EmbeddingDim |-> 0]

Coll_d == <<"d">>

\* store_request frames whose handling raises: a required field is missing,
\* the payload does not decode, the shape does not fit the payload, the
\* vectors are of another width than the engine's, doc_ids and vectors
\* differ in number, request_id is not a string.
BadStoreRequests ==
    LET good == StoreRequest(Req_r, Coll_c, None, <<"a">>, <<Axis(1)>>)
    IN  {Without(good, "request_id"),
         Without(good, "doc_ids"),
         [good EXCEPT !.vectors_b64.valid = FALSE],
         [good EXCEPT !.shape = <<2, EmbeddingDim>>],
         StoreRequest(Req_r, Coll_c, None, <<"a">>, <<WideAxis>>),
         [good EXCEPT !.doc_ids = <<"a", "b">>],
         [good EXCEPT !.request_id = Number_7]}

\* search_request frames whose handling raises (the last one only on a shard
\* that holds vectors).
BadSearchRequests ==
    LET good == SearchRequest(Req_r, Coll_c, None, Axis(1), 1)
    IN  {Without(good, "request_id"),
         Without(good, "query_b64"),
         [good EXCEPT !.query_b64.valid = FALSE],
         SearchRequest(Req_r, Coll_c, None, WideAxis, 1),
         [good EXCEPT !.request_id = Number_7]}

\* well-formed search_request frames that meet search's early returns: k = 0,
\* a query of norm zero, a collection that does not exist.
EdgeSearchRequests ==
    {SearchRequest(Req_r, Coll_c, None, Axis(1), 0),
     SearchRequest(Req_r, Coll_c, None, ZeroVector, 1),
     SearchRequest(Req_r, Coll_d, None, Axis(1), 1)}

\* frames of a type the node does not know: with a request_id, without one,
\* with one that is a number.
UnknownFrames ==
    {[type |-> "status_request", request_id |-> Req_r],
     [type |-> "status_request"],
     [type |-> "status_request", request_id |-> Number_7]}

EngineFrames ==
    BadStoreRequests \cup BadSearchRequests \cup EdgeSearchRequests \cup UnknownFrames

\* the frames the coordinator sends in Spec, request_id being the decimal
\* string of the frame's number on its connection: a store_request and a
\* frame of a type the node does not know.
NodeFrames(request_id) ==
    {StoreRequest(request_id, Coll_c, None, <<"a">>, <<Axis(1)>>),
     [type |-> "status_request", request_id |-> request_id]}

\* config.coordinator_url.split(","): how many URLs the list has.
NumUrls == 2

(***************************************************************************)
(* State.                                                                   *)
(***************************************************************************)
VARIABLES
    engine,          \* the VectorEngine's maps
    disk,            \* the files under data_dir
    last,            \* EngineSpec: the call made last and what it returned
    restarts,        \* EngineSpec: how often the process was started again
    coros,           \* ConcSpec: the add_vectors and search coroutines in flight
    pc,              \* where the node's main coroutine stands
    running,         \* self.running
    url_i,           \* the index of the URL _connect_and_run is at
    ws,              \* self.websocket: the connection's number (the round it was
                     \* opened in), 0 for None
    open,            \* the connections the node holds open
    peerClosed,      \* the transport of the current connection is closed
    heartbeat_task,  \* the task self.heartbeat_task refers to
    autosave_task,   \* the task self.autosave_task refers to
    leaked,          \* checkpoint tasks alive that no attribute refers to
    inbox,           \* frames sent by the coordinator, not yet read
    current,         \* the frame _handle_message is working on
    nrecv,           \* how many frames were read on this connection
    sent,            \* the frames the node wrote on this connection
    rounds,          \* how many connection rounds were begun
    frames,          \* how many requests the coordinator has sent
    hist             \* what happened, for the properties to speak about

engineVars == <<engine, disk>>

obsVars == <<last, restarts, coros>>

connVars == <<ws, open, peerClosed>>

taskVars == <<heartbeat_task, autosave_task, leaked>>

frameVars == <<inbox, current, nrecv, sent>>

nodeVars == <<pc, running, url_i, rounds, frames, frames, hist, connVars, taskVars, frameVars>>

vars == <<engineVars, obsVars, nodeVars>>

NoFrame == [type |-> "none"]

HistInit ==
    [round_end |-> "none",    \* how the last connection round ended
     slept |-> FALSE,         \* asyncio.sleep(5) ran since then
     hs |-> "none",           \* what the wait for the registration response met
     registered |-> FALSE,    \* the session is past the handshake
     shutdown_saves |-> 0,    \* save_all calls made by shutdown()
     allocated |-> max_ram_gb,   \* the 1 GiB blocks of the RAM reservation
     alloc_failed |-> FALSE]  \* the allocation of a block raised MemoryError

\* MinerNode.__init__: the attributes.
NodeAttrs ==
    /\ running = FALSE
    /\ url_i = 0
    /\ ws = 0
    /\ open = {}
    /\ peerClosed = FALSE
    /\ heartbeat_task = "none"
    /\ autosave_task = "none"
    /\ leaked = 0
    /\ inbox = <<>>
    /\ current = NoFrame
    /\ nrecv = 0
    /\ sent = <<>>
    /\ rounds = 0
    /\ frames = 0

\* the node constructed: cli's start is about to call node.start().
NodeInit ==
    /\ pc = "init"
    /\ hist = HistInit
    /\ NodeAttrs

\* ---- the coroutines of ConcSpec ---------------------------------------------
Adders == {1, 2}

Searchers == {3, 4}

\* the batch each add_vectors call is made with.
ConcBatch(t) ==
    IF t = 1 THEN [doc_ids |-> <<"a", "b">>, rows |-> <<Axis(1), Axis(2)>>]
    ELSE [doc_ids |-> <<"c">>, rows |-> <<Axis(1)>>]

\* a coroutine: where it stands (pc), the internal ids its batch was given,
\* how many rows the worker thread has inserted (i), whether it had to wait
\* for the lock, the k handed to knn_query, the labels knn_query returned
\* and the results the search returned.
CorosInit ==
    [t \in Adders \cup Searchers |->
        [pc |-> "start", ids |-> <<>>, i |-> 0, waited |-> FALSE, k |-> 0,
         labels |-> <<>>, results |-> <<>>]]

ObsInit == last = [op |-> "init"] /\ restarts = 0 /\ coros = CorosInit

(***************************************************************************)
(* EngineSpec: the engine driven one call at a time, as the receive loop    *)
(* drives it, with checkpoints and restarts of the process in between.      *)
(***************************************************************************)
EngineInit ==
    /\ engine = EmptyEngine
    /\ disk = EmptyDisk
    /\ ObsInit
    /\ NodeInit

\* a store_request handled by _handle_store.
EStore ==
    \E m \in EngineStoreRequests :
        LET r == _handle_store(engine, m)
        IN  /\ ~r.raised
            /\ engine' = r.engine
            /\ last' = [op |-> "store", msg |-> m, response |-> r.response, before |-> engine]
            /\ UNCHANGED <<disk, restarts, coros, nodeVars>>

\* a search_request handled by _handle_search.
ESearch ==
    \E m \in EngineSearchRequests :
        \E r \in _handle_search(engine, m) :
            /\ ~r.raised
            /\ engine' = r.engine
            /\ last' = [op |-> "search", msg |-> m, response |-> r.response, before |-> engine,
                        k |-> search_k(m)]
            /\ UNCHANGED <<disk, restarts, coros, nodeVars>>

\* any other frame, handled by _handle_message: what ws.send was given.
EMessage ==
    \E m \in EngineFrames :
        \E r \in _handle_message(engine, m) :
            /\ engine' = r.engine
            /\ last' = [op |-> "message", msg |-> m, out |-> r.out, before |-> engine]
            /\ UNCHANGED <<disk, restarts, coros, nodeVars>>

\* engine.save_all (the checkpoint task, or shutdown).
\* a frame whose text spells no JSON object, handled by _handle_message.
ERaw ==
    \E m \in RawFrames :
        \E r \in _handle_message(engine, m) :
            /\ engine' = r.engine
            /\ last' = [op |-> "raw", msg |-> m, out |-> r.out, before |-> engine]
            /\ UNCHANGED <<disk, restarts, coros, nodeVars>>

ESaveAll ==
    /\ disk' = save_all(engine, disk)
    /\ last' = [op |-> "save_all"]
    /\ UNCHANGED <<engine, restarts, coros, nodeVars>>

\* the process ends and a fresh VectorEngine is constructed on the same
\* data_dir: __init__ calls load_all.
ERestart ==
    /\ restarts < MaxRestarts
    /\ restarts' = restarts + 1
    /\ \E o \in LoadOrders(disk) :
        /\ engine' = load_all(disk, o)
        /\ last' = [op |-> "load_all", before |-> engine, saved |-> disk = save_all(engine, disk)]
    /\ UNCHANGED <<disk, coros, nodeVars>>

EngineNext == EStore \/ ESearch \/ EMessage \/ ERaw \/ ESaveAll \/ ERestart

EngineSpec == EngineInit /\ [][EngineNext]_vars

(***************************************************************************)
(* Properties of EngineSpec.                                                *)
(***************************************************************************)
ShardCount(e, c, ns) ==
    IF c \in DOMAIN e.indices /\ ns \in DOMAIN e.indices[c]
    THEN get_current_count(e.indices[c][ns]) ELSE 0

\* the doc_ids a search on (c, shard) with k = the shard's size returns, over
\* the queries of the model.
DocsReturned(e, c, ns) ==
    LET k == IF ShardCount(e, c, ns) = 0 THEN 1 ELSE ShardCount(e, c, ns)
    IN  UNION {{res[i].doc_id : i \in DOMAIN res} :
                  res \in UNION {search(e, c, q, k, ns) : q \in Queries}}

\* C5: after save_all and a fresh engine on the same data_dir, the total
\* number of vectors is the one before the save and every doc_id a search
\* returned before is returned by a search on the same collection and shard.
C5_SaveLoadRoundTrip ==
    (last.op = "load_all" /\ last.saved) =>
        /\ get_total_vectors(engine) = get_total_vectors(last.before)
        /\ \A c \in DOMAIN last.before.indices :
               \A ns \in DOMAIN last.before.indices[c] :
                   DocsReturned(last.before, c, ns) \subseteq DocsReturned(engine, c, ns)

\* the case C5 is about: a saved, nonempty engine was loaded again.
C5_Witness ==
    /\ last.op = "load_all" /\ last.saved
    /\ get_total_vectors(last.before) > 0

\* C10: a well-formed store_request is answered status=full, stored_count=0
\* with the engine unchanged when the capacity does not allow |doc_ids| more
\* vectors; and when it is answered status=ok, stored_count is |doc_ids| and
\* the addressed shard holds exactly |doc_ids| more vectors than before.
C10_StoreHandler ==
    last.op = "store" =>
        LET m == last.msg
            n == Len(m.doc_ids)
            b == last.before
            ns == _normalize_shard_id(IF "shard_id" \in DOMAIN m THEN m.shard_id ELSE None)
            fits == (get_total_vectors(b) + n) * EmbeddingDim * 4 <= max_ram_gb * BytesPerGiB
        IN  /\ ~fits => /\ last.response.status = "full"
                        /\ last.response.stored_count = 0
                        /\ engine = b
            /\ last.response.status = "ok" =>
                   /\ fits
                   /\ last.response.stored_count = n
                   /\ ShardCount(engine, m.collection_id, ns) = ShardCount(b, m.collection_id, ns) + n
                   /\ get_total_vectors(engine) = get_total_vectors(b) + n

\* C10's case: a store_request of two vectors was answered status=ok.
C10_Witness ==
    /\ last.op = "store"
    /\ last.response.status = "ok"
    /\ last.response.stored_count = 2

\* EngineSpec: a frame of the given type was handled last.
HandledLast(type) ==
    /\ last.op \in {"store", "search", "message"}
    /\ last.msg.type = type

\* EngineSpec: the frames ws.send was given for the frame handled last.
LastOut == IF last.op = "message" THEN last.out ELSE <<last.response>>

\* C11: when the handling of a store_request raises (a missing or malformed
\* field, a payload that does not decode, a dimension or count mismatch, a
\* failure of the index), the one frame sent for it is a store_response with
\* status=error, stored_count=0, the request's request_id and the text of
\* the exception.
C11_StoreErrorReply ==
    HandledLast("store_request") =>
        LET r == _handle_store(last.before, last.msg)
        IN  r.exc # "none" =>
                /\ Len(LastOut) = 1
                /\ LastOut[1].type = "store_response"
                /\ LastOut[1].status = "error"
                /\ LastOut[1].stored_count = 0
                /\ LastOut[1].error_message = ErrorText(r.exc)
                /\ LastOut[1].request_id = GetRequestId(last.msg)

\* C11's case: a store_request whose payload does not decode was handled.
C11_Witness ==
    /\ HandledLast("store_request")
    /\ _handle_store(last.before, last.msg).exc = "decode_error"
    /\ LastOut[1].type = "store_response"
    /\ LastOut[1].status = "error"

\* C12: when the handling of a search_request raises (a missing or malformed
\* field, a query that does not decode, a failure of the engine), the one
\* frame sent for it is a search_response with the request's request_id and
\* an empty results list, never an error frame.
C12_SearchEmptyReply ==
    HandledLast("search_request") =>
        \A r \in _handle_search(last.before, last.msg) :
            r.exc # "none" =>
                /\ Len(LastOut) = 1
                /\ LastOut[1].type = "search_response"
                /\ LastOut[1].results = <<>>
                /\ LastOut[1].request_id = GetRequestId(last.msg)

\* C12's case: a search_request whose query the index refuses (a vector of
\* another width, on a shard that holds vectors) was handled.
C12_Witness ==
    /\ HandledLast("search_request")
    /\ \E r \in _handle_search(last.before, last.msg) : r.exc = "dimension_mismatch"
    /\ LastOut[1].type = "search_response"
    /\ LastOut[1].results = <<>>

\* EngineSpec: the exception the try block of the handler of the frame
\* handled last ended with, "none" when it returned or the frame has no
\* handler.
LastException ==
    IF HandledLast("store_request") THEN _handle_store(last.before, last.msg).exc
    ELSE IF HandledLast("search_request")
    THEN (CHOOSE r \in _handle_search(last.before, last.msg) : TRUE).exc
    ELSE "none"

\* the frame handled last went to _handle_store or _handle_search.
HandlerRan == HandledLast("store_request") \/ HandledLast("search_request")

HandledTypes == {"store_request", "search_request", "challenge_request"}

\* C14: a frame whose type is none of store_request, search_request,
\* challenge_request is answered by exactly one error frame with error_code
\* INVALID_MESSAGE that carries the frame's request_id (None when it has
\* none), and the engine is left as it was.
C14_UnknownType ==
    (last.op = "message" /\ last.msg.type \notin HandledTypes) =>
        /\ LastOut = <<ErrorResponse(GetRequestId(last.msg), "INVALID_MESSAGE")>>
        /\ engine = last.before

\* C14's case: a frame of an unknown type reached an engine that holds
\* vectors and was answered INVALID_MESSAGE.
C14_Witness ==
    /\ last.op = "message" /\ last.msg.type \notin HandledTypes
    /\ get_total_vectors(last.before) > 0
    /\ Len(LastOut) = 1
    /\ LastOut[1].error_code = "INVALID_MESSAGE"

\* every vector the engine holds, as (collection, shard, label).
StoredVectors(e) ==
    UNION {UNION {{<<c, sh, l>> : l \in DOMAIN e.indices[c][sh]} : sh \in DOMAIN e.indices[c]} :
              c \in DOMAIN e.indices}

\* C15: can_accept(n) is true iff bytes_used + n*D*4 <= max_bytes, bytes_used
\* being total_vectors*D*4 over all collections and shards and max_bytes
\* being max_ram_gb GiB; it is false iff (total_vectors + n)*D*4 > max_bytes.
C15_CanAccept ==
    LET total_vectors == Cardinality(StoredVectors(engine))
        bytes_used == total_vectors * EmbeddingDim * 4
    IN  /\ get_bytes_used(engine) = bytes_used
        /\ \A n \in 0..(MaxElements + 2) :
               /\ can_accept(engine, n) <=>
                      bytes_used + n * EmbeddingDim * 4 <= max_ram_gb * BytesPerGiB
               /\ ~can_accept(engine, n) <=>
                      (total_vectors + n) * EmbeddingDim * 4 > max_ram_gb * BytesPerGiB

\* C15's case: the engine holds vectors in two shards, no vectors are
\* accepted and two more are not, and a store_request was answered full.
C15_Witness ==
    /\ \E x, y \in StoredVectors(engine) : x[2] # y[2]
    /\ can_accept(engine, 0) /\ ~can_accept(engine, 2)
    /\ last.op = "store" /\ last.response.status = "full"

\* an ndarray of the given rows, as decode_vectors hands it to add_vectors.
ArrayOf(rows) == [shape |-> encode_vectors(rows).shape, rows |-> rows]

\* C16: add_vectors raises the dimension-mismatch error when the vectors are
\* not of width D, and the count-mismatch error when they are and doc_ids
\* has another length than there are vectors; in both cases (and when both
\* are wrong) the engine is exactly as before the call.
C16_MismatchBeforeChange ==
    \A c \in {Coll_c, Coll_d}, sh \in EngineShards :
        /\ add_vectors(engine, c, ArrayOf(<<WideAxis>>), <<"a">>, sh)
               = [outcome |-> "dimension_mismatch", engine |-> engine]
        /\ add_vectors(engine, c, ArrayOf(<<WideAxis>>), <<"a", "b">>, sh)
               = [outcome |-> "dimension_mismatch", engine |-> engine]
        /\ add_vectors(engine, c, ArrayOf(<<Axis(1)>>), <<"a", "b">>, sh)
               = [outcome |-> "count_mismatch", engine |-> engine]
        /\ add_vectors(engine, c, ArrayOf(<<Axis(1), Axis(2)>>), <<"a">>, sh)
               = [outcome |-> "count_mismatch", engine |-> engine]

\* C16's case: add_vectors was called by the store handler with vectors of
\* another width on an engine that holds vectors, and raised.
C16_Witness ==
    /\ HandledLast("store_request")
    /\ LastException = "dimension_mismatch"
    /\ get_total_vectors(last.before) > 0
    /\ engine = last.before

\* C17: a search with k > 0 on a shard that holds vectors returns at most
\* min(k, current_count) entries, and their scores do not increase from the
\* first to the last.
C17_SearchBound ==
    LET m == last.msg
        ns == _normalize_shard_id(IF "shard_id" \in DOMAIN m THEN m.shard_id ELSE None)
        count == ShardCount(last.before, m.collection_id, ns)
        results == last.response.results
    IN  (last.op = "search" /\ last.k > 0 /\ count > 0) =>
            /\ Len(results) <= last.k
            /\ Len(results) <= count
            /\ \A i, j \in 1..Len(results) :
                   i < j => ScoreLeq(results[j].score, results[i].score)

\* C17's case: a search on a shard of two vectors returned both, the second
\* with a lower score than the first.
C17_Witness ==
    /\ last.op = "search"
    /\ Len(last.response.results) = 2
    /\ ~ScoreLeq(last.response.results[1].score, last.response.results[2].score)

\* the k's and the queries C18 is checked with.
EdgeKs == {-1, 0, 1}

EdgeQueries == Queries \cup {ZeroVector, WideAxis}

\* the engine, and the engine as add_vectors leaves it when a shard was
\* created and add_items raised on the first row: the shard exists and is
\* empty.
WithEmptyShard(e) ==
    {e} \cup {add_prepare(e, Coll_c, _normalize_shard_id(sh)) : sh \in EngineShards}

\* C18: search returns the empty list and does not raise whenever the
\* collection is absent, the shard is absent, the shard is empty, k <= 0 or
\* the query has norm zero.
C18_SearchEarlyReturn ==
    \A e \in WithEmptyShard(engine) :
        \A c \in {Coll_c, Coll_d}, sh \in EngineShards, q \in EdgeQueries, k \in EdgeKs :
            LET ns == _normalize_shard_id(sh)
                absent == c \notin DOMAIN e.indices \/ ns \notin DOMAIN e.indices[c]
            IN  (absent \/ ShardCount(e, c, ns) = 0 \/ k <= 0 \/ Dot(q, q) = 0) =>
                    /\ search(e, c, q, k, sh) = {<<>>}
                    /\ \A r \in _handle_search(e, SearchRequest(Req_r, c, sh, q, k)) :
                           r.exc = "none" /\ r.response.results = <<>>

\* C18's case: a search_request with k > 0 and a query of norm zero was
\* handled on a shard that holds vectors, and answered with no results.
C18_Witness ==
    /\ HandledLast("search_request")
    /\ last.msg = SearchRequest(Req_r, Coll_c, None, ZeroVector, 1)
    /\ ShardCount(last.before, Coll_c, S_default) > 0
    /\ LastException = "none"
    /\ LastOut[1].results = <<>>

\* C19: after a store_request was answered ok, a search on the collection
\* and shard it addressed, with k the number of vectors stored and the query
\* the i-th vector of the batch, returns the i-th doc_id of the batch, and
\* no result has a higher score than that one.
C19_InsertedFound ==
    (last.op = "store" /\ last.response.status = "ok") =>
        LET m == last.msg
            shard_id == IF "shard_id" \in DOMAIN m THEN m.shard_id ELSE None
            rows == decode_vectors(m.vectors_b64, m.shape).array.rows
        IN  \A i \in 1..Len(m.doc_ids) :
                \A res \in search(engine, m.collection_id, rows[i],
                                   get_total_vectors(engine), shard_id) :
                    \E j \in 1..Len(res) :
                        /\ res[j].doc_id = m.doc_ids[i]
                        /\ \A j2 \in 1..Len(res) : ScoreLeq(res[j2].score, res[j].score)

\* C19's case: a batch of two vectors was stored in a shard that held
\* vectors already.
C19_Witness ==
    /\ last.op = "store" /\ last.response.status = "ok"
    /\ Len(last.msg.doc_ids) = 2
    /\ get_total_vectors(last.before) > 0

\* what searches on (c, ns) return, over the queries of the model and with
\* k the shard's size: the (query, result) pairs.
Returned(e, c, ns) ==
    LET k == IF ShardCount(e, c, ns) = 0 THEN 1 ELSE ShardCount(e, c, ns)
    IN  UNION {UNION {{<<q, res[i]>> : i \in DOMAIN res} : res \in search(e, c, q, k, ns)} :
                  q \in Queries}

\* what a search on (c, ns) may return of the batch of the call l, an
\* add_vectors call made by the store handler and addressed to (c, ns).
InsertedBy(l, c, ns) ==
    IF /\ l.op = "store"
       /\ l.msg.collection_id = c
       /\ _normalize_shard_id(IF "shard_id" \in DOMAIN l.msg THEN l.msg.shard_id ELSE None) = ns
    THEN LET rows == decode_vectors(l.msg.vectors_b64, l.msg.shape).array.rows
         IN  {<<q, [doc_id |-> l.msg.doc_ids[i],
                    score |-> Similarity(Normalize(rows[i]), Normalize(q))]>> :
                 q \in Queries, i \in 1..Len(l.msg.doc_ids)}
    ELSE {}

NormalizedShards == {_normalize_shard_id(sh) : sh \in EngineShards}

\* C20: shards are isolated.  Whatever a search on a collection and shard
\* returns after a call on the engine, it returned before the call or it is
\* a vector and doc_id of the add_vectors call just made on the same
\* collection and the same normalized shard; so nothing stored in one shard
\* is ever returned by a search on another shard or collection.  (The engine
\* is empty at first, and save_all leaves it alone.)
C20_ShardIsolation ==
    /\ last.op = "init" => get_total_vectors(engine) = 0
    /\ last.op \in {"store", "search", "message", "load_all"} =>
           \A c \in {Coll_c, Coll_d}, ns \in NormalizedShards :
               Returned(engine, c, ns) \subseteq
                   Returned(last.before, c, ns) \cup InsertedBy(last, c, ns)

\* C20's case: two shards of one collection hold vectors under different
\* doc_ids, and a search on one of them was answered.
C20_Witness ==
    /\ last.op = "search"
    /\ Len(last.response.results) > 0
    /\ \E s1, s2 \in NormalizedShards :
           /\ ShardCount(engine, Coll_c, s1) > 0 /\ ShardCount(engine, Coll_c, s2) > 0
           /\ DocsReturned(engine, Coll_c, s1) # DocsReturned(engine, Coll_c, s2)

\* the three ways a request names the synthetic shard.
DefaultShardForms == {None, S_empty, S_default}

\* C21: shard_id absent, "" and "default" address one and the same shard
\* "default".  On every engine the model reaches, the store handler, the
\* search handler and _get_lock give for "" and for "default" what they give
\* for an absent shard_id (the same engine after the call, index, id map,
\* counter and lock included, and the same reply); and the
\* shard such a call touches is the one keyed "default", never one keyed "".
C21_DefaultShard ==
    /\ \A sh \in DefaultShardForms :
          /\ _normalize_shard_id(sh) = S_default
          /\ _get_lock(engine.locks, Coll_c, sh) = _get_lock(engine.locks, Coll_c, None)
          /\ \A b \in Batches :
                _handle_store(engine, StoreRequest(Req_r, Coll_c, sh, b.doc_ids, b.rows))
                    = _handle_store(engine, StoreRequest(Req_r, Coll_c, None, b.doc_ids, b.rows))
          /\ \A q \in Queries :
                _handle_search(engine, SearchRequest(Req_r, Coll_c, sh, q, MaxElements))
                    = _handle_search(engine, SearchRequest(Req_r, Coll_c, None, q, MaxElements))
    /\ \A c \in DOMAIN engine.indices : S_empty \notin DOMAIN engine.indices[c]
    /\ \A c \in DOMAIN engine.locks : S_empty \notin DOMAIN engine.locks[c]
    /\ (last.op = "store" /\ "shard_id" \notin DOMAIN last.msg /\ last.response.status = "ok") =>
           LET c == last.msg.collection_id
           IN  /\ S_default \in DOMAIN engine.indices[c]
               /\ S_default \in DOMAIN engine.id_maps[c]
               /\ S_default \in DOMAIN engine.locks[c]
               /\ engine.next_ids[c][S_default]
                      = (IF shard_keyed(last.before, c, S_default)
                         THEN last.before.next_ids[c][S_default] ELSE 0) + Len(last.msg.doc_ids)

\* C21's case: a store_request without shard_id was answered ok on an engine
\* whose shard "default" held vectors already, and a search that names the
\* shard "" finds what it stored.
C21_Witness ==
    /\ last.op = "store" /\ "shard_id" \notin DOMAIN last.msg
    /\ last.response.status = "ok"
    /\ ShardCount(last.before, Coll_c, S_default) > 0
    /\ \E res \in search(engine, Coll_c, Axis(1), MaxElements, S_empty) : Len(res) > 0

\* C29: the search handler calls the engine's search with k = top_k of the
\* request, and with k = 50 when the request carries no top_k.
C29_SearchK ==
    last.op = "search" =>
        /\ last.k = IF "top_k" \in DOMAIN last.msg THEN last.msg.top_k ELSE GetattrTopK
        /\ last.response.results
               \in search(last.before, last.msg.collection_id,
                          decode_query_vector(last.msg.query_b64, last.msg.shape).vector,
                          last.k,
                          IF "shard_id" \in DOMAIN last.msg THEN last.msg.shard_id ELSE None)

\* C29's case: a search_request without top_k was answered with results.
C29_Witness ==
    /\ last.op = "search"
    /\ "top_k" \notin DOMAIN last.msg
    /\ Len(last.response.results) > 0

\* the (collection, shard) pairs the engine holds an index for.
EngineShardKeys(e) ==
    {k \in (DOMAIN e.indices) \X UNION {DOMAIN e.indices[c] : c \in DOMAIN e.indices} :
        k[2] \in DOMAIN e.indices[k[1]]}

\* the (collection, shard) pairs the engine holds a counter for.
CounterKeys(e) ==
    {k \in (DOMAIN e.next_ids) \X UNION {DOMAIN e.next_ids[c] : c \in DOMAIN e.next_ids} :
        k[2] \in DOMAIN e.next_ids[k[1]]}

C33_NextIdIsCount ==
    /\ \A k \in CounterKeys(engine) :
           /\ k \in EngineShardKeys(engine)
           /\ engine.next_ids[k[1]][k[2]] = get_current_count(engine.indices[k[1]][k[2]])
    /\ last.op \in {"store", "search", "message", "load_all"} =>
           \A k \in CounterKeys(last.before) :
               /\ k \in CounterKeys(engine)
               /\ engine.next_ids[k[1]][k[2]] >= last.before.next_ids[k[1]][k[2]]

\* C33's case: a store_request was answered with an error after add_items
\* had inserted a part of its batch.
C33_Witness ==
    /\ last.op = "store"
    /\ last.response.status = "error"
    /\ restarts = 0
    /\ \E k \in CounterKeys(engine) :
          /\ k \in CounterKeys(last.before)
          /\ get_current_count(engine.indices[k[1]][k[2]])
                 > get_current_count(last.before.indices[k[1]][k[2]])
          /\ engine.next_ids[k[1]][k[2]] = last.before.next_ids[k[1]][k[2]]

\* C37: the store handler never lets the stored vectors exceed the RAM
\* budget: a frame handled on an engine with bytes_used <= max_bytes
\* leaves bytes_used <= max_bytes, and so every state of the engine, which
\* starts empty, is within the budget.
C37_WithinBudget ==
    /\ (last.op \in {"store", "message"} /\ get_bytes_used(last.before) <= max_bytes) =>
           get_bytes_used(engine) <= max_bytes
    /\ get_bytes_used(engine) <= max_bytes

\* C37's case: a store_request was refused with status "full" by an engine
\* that holds vectors in more than one shard, none of its indices being full,
\* and that has no room for the batch.
C37_Witness ==
    /\ last.op = "store"
    /\ last.response.status = "full"
    /\ engine = last.before
    /\ get_bytes_used(engine) + Len(last.msg.doc_ids) * EmbeddingDim * 4 > max_bytes
    /\ get_bytes_used(engine) < max_bytes
    /\ Cardinality(EngineShardKeys(engine)) > 1

(***************************************************************************)
(* PersistSpec: the engine and its data_dir.  The process starts on a       *)
(* data_dir that is empty or holds a legacy collection, stores vectors,     *)
(* checkpoints while writes to some path fail, and is started again.        *)
(***************************************************************************)
\* the legacy files of collection "c": one vector under doc_id "a".
LegacyBinPath == <<S_empty, Coll_c \o S_bin>>

LegacyMapPath == <<S_empty, Coll_c \o S_map_json>>

LegacyBin == [kind |-> "bin", items |-> Put(EmptyMap, 0, Normalize(Axis(2)))]

LegacyMap == MapData(Put(EmptyMap, 0, "z"), 1)

Unreadable == [kind |-> "partial"]

\* what data_dir may hold when the process is first started: nothing, a
\* legacy pair, a legacy index without its map file, a legacy pair whose
\* index file or whose map file cannot be read.
PersistDisks ==
    {EmptyDisk} \cup
    {[EmptyDisk EXCEPT !.files = fs] :
        fs \in {Put(Put(EmptyMap, LegacyBinPath, LegacyBin), LegacyMapPath, LegacyMap),
                 Put(EmptyMap, LegacyBinPath, LegacyBin),
                 Put(Put(EmptyMap, LegacyBinPath, Unreadable), LegacyMapPath, LegacyMap),
                 Put(Put(EmptyMap, LegacyBinPath, LegacyBin), LegacyMapPath, Unreadable)}}

\* the (collection, shard_id) pairs the store_requests of PersistSpec name.
PersistTargets == {<<Coll_c, Shard_shard_x>>, <<S_empty, None>>}

PersistStoreRequests ==
    {StoreRequest(Req_r, t[1], t[2], <<"a">>, <<Axis(1)>>) : t \in PersistTargets}

\* the paths a write may fail on: the files save_collection writes for the
\* shards of collection "c".
FaultPaths ==
    UNION {{<<Coll_c, ShardBinName(sh)>>, <<Coll_c, ShardMapName(sh)>>} :
              sh \in {S_default, Shard_shard_x}}

PersistInit ==
    /\ disk \in PersistDisks
    /\ \E o \in LoadOrders(disk) : engine = load_all(disk, o)
    /\ last = [op |-> "load_all", before |-> EmptyEngine, saved |-> FALSE]
    /\ restarts = 0
    /\ coros = CorosInit
    /\ NodeInit

\* a store_request handled by _handle_store.
PStore ==
    \E m \in PersistStoreRequests :
        LET r == _handle_store(engine, m)
        IN  /\ ~r.raised
            /\ engine' = r.engine
            /\ last' = [op |-> "store", msg |-> m, response |-> r.response]
            /\ UNCHANGED <<disk, restarts, coros, nodeVars>>

\* engine.save_all (the checkpoint task, or shutdown).
PSaveAll ==
    /\ disk' = save_all(engine, disk)
    /\ last' = [op |-> "save_all", changed |-> disk' # disk]
    /\ UNCHANGED <<engine, restarts, coros, nodeVars>>

\* the surroundings: writes to one more path begin to fail.
PFault ==
    /\ Cardinality(DOMAIN disk.faults) < MaxFaults
    /\ \E f \in FaultPaths \ DOMAIN disk.faults, k \in {"denied", "partial"} :
          disk' = [disk EXCEPT !.faults = Put(@, f, k)]
    /\ last' = [op |-> "fault"]
    /\ UNCHANGED <<engine, restarts, coros, nodeVars>>

PersistNext == PStore \/ PSaveAll \/ PFault \/ ERestart

PersistSpec == PersistInit /\ [][PersistNext]_vars

(***************************************************************************)
(* Properties of PersistSpec.                                               *)
(***************************************************************************)
\* whether a write of save_collection for the shard k fails.
WriteFails(d, k) ==
    \/ <<k[1], ShardBinName(k[2])>> \in DOMAIN d.faults
    \/ <<k[1], ShardMapName(k[2])>> \in DOMAIN d.faults

\* whether the files of shard k on the disk d are the ones save_collection
\* writes for the engine e.
ShardSaved(e, d, k) ==
    LET bin_path == <<k[1], ShardBinName(k[2])>>
        map_path == <<k[1], ShardMapName(k[2])>>
    IN  /\ bin_path \in DOMAIN d.files
        /\ d.files[bin_path] = [kind |-> "bin", items |-> e.indices[k[1]][k[2]]]
        /\ shard_keyed(e, k[1], k[2]) =>
              /\ map_path \in DOMAIN d.files
              /\ d.files[map_path] = MapData(e.id_maps[k[1]][k[2]], e.next_ids[k[1]][k[2]])

\* C22: save_all returns whatever writes fail, and every shard none of whose
\* two files fails to be written is saved: after save_all its index file
\* and its map file hold what the engine holds.
C22_SaveGoesOn ==
    last.op = "save_all" =>
        \A k \in EngineShardKeys(engine) : ~WriteFails(disk, k) => ShardSaved(engine, disk, k)

\* C22's case: save_all ran while a write for one shard failed, and wrote
\* the files of another shard that holds vectors.
C22_Witness ==
    /\ last.op = "save_all" /\ last.changed
    /\ \E k1, k2 \in EngineShardKeys(engine) :
          /\ WriteFails(disk, k1) /\ ~ShardSaved(engine, disk, k1)
          /\ ~WriteFails(disk, k2) /\ ShardSaved(engine, disk, k2)
          /\ k1[1] = k2[1]
          /\ get_current_count(engine.indices[k2[1]][k2[2]]) > 0

\* the index files load_all meets whose loading does not fail, and the
\* ones whose loading fails (the index file or the map file is unreadable).
LoadsCleanly(d, cand) ==
    Loadable(d, cand) /\ (cand.map \in DOMAIN d.files => MapReadable(d, cand))

AllCandidates(d) == LegacyCandidates(d) \cup ShardCandidates(d)

\* C23: load_all goes on after a shard that fails to load.  After load_all
\* every index file on disk that loads without error is held by the engine
\* under its collection and shard, and no later add_vectors, search or save
\* on a shard the engine holds fails for want of the shard's id map or
\* counter.
C23_LoadGoesOn ==
    last.op = "load_all" =>
        /\ \A x \in AllCandidates(disk) :
               LoadsCleanly(disk, x) => <<x.c, x.s>> \in EngineShardKeys(engine)
        /\ \A k \in EngineShardKeys(engine) :
               /\ add_vectors(engine, k[1], ArrayOf(<<Axis(1)>>), <<"a">>, k[2]).outcome # "key_error"
               /\ \A r \in _handle_search(engine, SearchRequest(Req_r, k[1], k[2], Axis(1), 1)) :
                      r.exc = "none"
               /\ ~save_shard_fails(engine, [disk EXCEPT !.faults = EmptyMap], k[1], k[2])

\* C23's case: the process was started again on a data_dir where one index
\* file loads without error and another shard's index file or map file is
\* unreadable.
C23_Witness ==
    /\ last.op = "load_all" /\ restarts > 0
    /\ \E x, y \in AllCandidates(disk) :
          /\ ~LoadsCleanly(disk, x)
          /\ LoadsCleanly(disk, y)
          /\ <<x.c, x.s>> # <<y.c, y.s>>
          /\ ShardCount(engine, y.c, y.s) > 0

\* the (collection, shard) pairs the engine holds an id map for.
IdMapKeys(e) ==
    {k \in (DOMAIN e.id_maps) \X UNION {DOMAIN e.id_maps[c] : c \in DOMAIN e.id_maps} :
        k[2] \in DOMAIN e.id_maps[k[1]]}

\* C34: the three maps of the engine agree on their keys: a (collection,
\* shard) pair has an index exactly when it has an id map and a counter,
\* also after a load_all in which the map file of a shard could not be read
\* after its index file had been loaded.
C34_MapsAgree ==
    /\ DOMAIN engine.indices = DOMAIN engine.id_maps
    /\ DOMAIN engine.indices = DOMAIN engine.next_ids
    /\ EngineShardKeys(engine) = IdMapKeys(engine)
    /\ EngineShardKeys(engine) = CounterKeys(engine)

\* C34's case: the process was started again, the index file of a shard
\* that the engine had checkpointed was loaded, and its map file was
\* unreadable.
C34_Witness ==
    /\ last.op = "load_all" /\ restarts > 0
    /\ \E x \in ShardCandidates(disk) :
          /\ Loadable(disk, x)
          /\ x.map \in DOMAIN disk.files /\ ~MapReadable(disk, x)
          /\ <<x.c, x.s>> \in EngineShardKeys(engine)

\* the paths a call that turns the disk d into d2 created or modified.
Written(d, d2) ==
    {f \in DOMAIN d2.files : f \notin DOMAIN d.files \/ d2.files[f] # d.files[f]}

\* C24: the writer never produces the legacy layout.  Whatever the engine
\* holds, every file save_all creates or modifies is the index file or the
\* map file of a shard the engine holds, under the directory of the shard's
\* collection, and none of them is a file of data_dir itself that load_all
\* takes for the index file or the map file of a legacy collection.
C24_NoLegacyWritten ==
    LET d2 == save_all(engine, disk)
    IN  /\ \A f \in Written(disk, d2) :
              \E k \in EngineShardKeys(engine) :
                  /\ f[1] = k[1]
                  /\ f[2] \in {ShardBinName(k[2]), ShardMapName(k[2])}
        /\ \A x \in LegacyCandidates(d2) :
              x.bin \notin Written(disk, d2) /\ x.map \notin Written(disk, d2)

\* C24's case: save_all has written the files of a collection the engine
\* holds vectors of, and the next load_all finds an index file it takes for
\* a legacy collection's among the files save_all writes.
C24_Witness ==
    /\ last.op = "save_all" /\ last.changed
    /\ \E k \in EngineShardKeys(engine) :
          /\ ShardSaved(engine, disk, k)
          /\ get_current_count(engine.indices[k[1]][k[2]]) > 0
          /\ \E x \in LegacyCandidates(disk) : x.bin = <<k[1], ShardBinName(k[2])>>

\* the shard_id save_collection wrote the index file `name` for: the name
\* without its prefix shard_ and its suffix .bin.
NamedShardId(name) == SubSeq(name, Len(S_shard) + 1, Len(name) - Len(S_bin))

\* the readable pairs of an index file and its map file on the disk, as
\* [c, s, bin, map]: the legacy pairs c.bin, c_map.json of data_dir, which
\* stand for shard "default" of c, and the pairs shard_<s>.bin,
\* shard_<s>_map.json under the directory of a collection c.
ReadablePair(d, x) ==
    /\ x.bin \in DOMAIN d.files /\ d.files[x.bin].kind = "bin"
    /\ x.map \in DOMAIN d.files /\ d.files[x.map].kind = "json"

LegacyPairs(d) ==
    {x \in {[c |-> PathStem(f[2]), s |-> S_default, bin |-> f,
              map |-> <<S_empty, PathStem(f[2]) \o S_map_json>>] :
                f \in {g \in DOMAIN d.files : g[1] = S_empty /\ EndsWith(g[2], S_bin)}} :
        ReadablePair(d, x)}

ShardPairs(d) ==
    {x \in {[c |-> f[1], s |-> NamedShardId(f[2]), bin |-> f,
              map |-> <<f[1], ShardMapName(NamedShardId(f[2]))>>] :
                f \in {g \in DOMAIN d.files :
                          /\ g[1] \in d.dirs /\ StartsWith(g[2], S_shard) /\ EndsWith(g[2], S_bin)
                          /\ Len(g[2]) >= Len(S_shard) + Len(S_bin)}} :
        ReadablePair(d, x)}

\* whether the engine e holds, as shard x.s of collection x.c, what the
\* index file and the map file of the pair x hold.
Exposes(e, d, x) ==
    /\ x.c \in DOMAIN e.indices /\ x.s \in DOMAIN e.indices[x.c]
    /\ e.indices[x.c][x.s] = d.files[x.bin].items
    /\ shard_keyed(e, x.c, x.s)
    /\ e.id_maps[x.c][x.s] = LoadedIdMap(d, x)
    /\ e.next_ids[x.c][x.s] = LoadedNextId(d, x)

\* C25: load_all ingests both layouts.  After load_all a readable legacy
\* pair c.bin, c_map.json is shard "default" of collection c, with the id map
\* and the counter of the map file (unless the directory of c holds a pair
\* for shard "default" as well), and every readable pair shard_<s>.bin,
\* shard_<s>_map.json under the directory of a collection c is shard s of c.
C25_BothLayouts ==
    last.op = "load_all" =>
        /\ \A x \in LegacyPairs(disk) :
               (~\E y \in ShardPairs(disk) : y.c = x.c /\ y.s = S_default)
                   => Exposes(engine, disk, x)
        /\ \A y \in ShardPairs(disk) : Exposes(engine, disk, y)

\* C25's case: the process was started again on a data_dir that holds a
\* readable legacy pair and a readable pair of the current layout for
\* another shard of the same collection, and the engine holds the legacy
\* vectors as shard "default".
C25_Witness ==
    /\ last.op = "load_all" /\ restarts > 0
    /\ \E x \in LegacyPairs(disk), y \in ShardPairs(disk) :
          /\ x.c = Coll_c /\ y.c = Coll_c /\ y.s # S_default
          /\ Exposes(engine, disk, x)
          /\ ShardCount(engine, Coll_c, S_default) > 0

(***************************************************************************)
(* ChallengeSpec: challenge_request frames handled by _handle_message, one  *)
(* at a time, between store_requests that change the engine.                *)
(***************************************************************************)
Chal_q == <<"q">>

Chal_p == <<"p">>

Seed_ab == <<"a", "b">>

ChallengeRequest(challenge_id, epoch_seed, offsets, chunk_size, deadline_ms) ==
    [type |-> "challenge_request", challenge_id |-> challenge_id, epoch_seed |-> epoch_seed,
     offsets |-> offsets, chunk_size |-> chunk_size, deadline_ms |-> deadline_ms]

\* challenge_request frames whose handling does not raise: two that differ in
\* challenge_id and deadline only, the offsets in another order, chunks of no
\* byte, of one byte, of one digest and of one byte more, another seed, the
\* empty seed, no offsets.
GoodChallenges ==
    {ChallengeRequest(Chal_q, Seed_ab, <<0, DigestSize>>, DigestSize + 1, 1000),
     ChallengeRequest(Chal_p, Seed_ab, <<0, DigestSize>>, DigestSize + 1, 5),
     ChallengeRequest(Chal_q, Seed_ab, <<DigestSize, 0>>, DigestSize + 1, 1000),
     ChallengeRequest(Chal_q, Seed_ab, <<7>>, 0, 1000),
     ChallengeRequest(Chal_q, Seed_ab, <<7>>, 1, 1000),
     ChallengeRequest(Chal_q, Seed_ab, <<7>>, DigestSize, 1000),
     ChallengeRequest(Chal_q, <<"0", "b">>, <<7>>, DigestSize, 1000),
     ChallengeRequest(Chal_q, <<>>, <<0>>, 1, 1000),
     ChallengeRequest(Chal_q, Seed_ab, <<>>, DigestSize + 1, 1000)}

\* challenge_request frames whose handling raises: a required field is
\* missing, challenge_id is not a string, the seed is no hex string, an
\* offset is negative, an offset does not fit the bytes of to_bytes, the
\* offset fits and the offset of the chunk's second digest does not.
BadChallenges ==
    LET good == ChallengeRequest(Chal_q, Seed_ab, <<0>>, DigestSize + 1, 1000)
    IN  {Without(good, "challenge_id"),
         [good EXCEPT !.challenge_id = Number_7],
         Without(good, "offsets"),
         [good EXCEPT !.epoch_seed = <<"z", "z">>],
         [good EXCEPT !.epoch_seed = <<"a">>],
         [good EXCEPT !.offsets = <<0, -1>>],
         [good EXCEPT !.offsets = <<Pow256(OffsetBytes)>>],
         [good EXCEPT !.offsets = <<Pow256(OffsetBytes) - 1>>]}

ChallengeFrames == GoodChallenges \cup BadChallenges

\* what a challenge leaves to compare a later one with: the frame, the
\* frames sent for it and the engine it was handled on.
NoChallenge == [seen |-> FALSE]

ChallengeInit ==
    /\ engine = EmptyEngine
    /\ disk = EmptyDisk
    /\ last = [op |-> "init", first |-> NoChallenge]
    /\ restarts = 0
    /\ coros = CorosInit
    /\ NodeInit

\* a challenge_request handled by _handle_message: what ws.send was given.
CChallenge ==
    \E m \in ChallengeFrames :
        \E r \in _handle_message(engine, m) :
            /\ engine' = r.engine
            /\ last' = [op |-> "message", msg |-> m, out |-> r.out, before |-> engine,
                        first |-> IF last.first.seen \/ m \notin GoodChallenges THEN last.first
                                  ELSE [seen |-> TRUE, msg |-> m, out |-> r.out,
                                        engine |-> engine]]
            /\ UNCHANGED <<disk, restarts, coros, nodeVars>>

\* a store_request handled in between.
CStore ==
    LET r == _handle_store(engine, StoreRequest(Req_r, Coll_c, None, <<"a">>, <<Axis(1)>>))
    IN  /\ ~r.raised
        /\ r.response.status = "ok"
        /\ engine' = r.engine
        /\ last' = [op |-> "store_between", first |-> last.first]
        /\ UNCHANGED <<disk, restarts, coros, nodeVars>>

ChallengeNext == CChallenge \/ CStore

ChallengeSpec == ChallengeInit /\ [][ChallengeNext]_vars

(***************************************************************************)
(* Properties of ChallengeSpec.                                             *)
(***************************************************************************)
\* a challenge_request whose handling raises nothing: the fields are there,
\* challenge_id is a string, the seed is a hex string and, unless the chunks
\* are empty, every offset and the offset of every digest of its chunk fit
\* the bytes of to_bytes.
ValidChallenge(m) ==
    /\ ChallengeRequestFields \subseteq DOMAIN m
    /\ m.challenge_id # Number_7 /\ m.challenge_id # None
    /\ ~fromhex(m.epoch_seed).raised
    /\ m.chunk_size > 0 =>
          \A i \in DOMAIN m.offsets :
              /\ m.offsets[i] >= 0
              /\ m.offsets[i] + DigestSize * ((m.chunk_size - 1) \div DigestSize)
                     < Pow256(OffsetBytes)

\* the j-th byte of the chunk of an offset: byte (j - 1) mod 32 of the digest
\* of epoch_seed || u64_be(offset + 32 * ((j - 1) div 32)).
ChunkByte(seed_bytes, offset, j) ==
    sha256(seed_bytes \o to_bytes(offset + DigestSize * ((j - 1) \div DigestSize)))
        [((j - 1) % DigestSize) + 1]

\* the inputs the chunks are said to depend on.
ChallengeInputs(m) == <<m.epoch_seed, m.offsets, m.chunk_size>>

\* C26: a valid challenge_request is answered by one challenge_response
\* with the request's challenge_id and one chunk per offset, in the order of
\* the offsets, each the base64 of exactly chunk_size bytes, the j-th being
\* the byte of the successive digests of epoch_seed || u64_be(offset + 32k);
\* and the chunks are the ones an earlier request with the same epoch_seed,
\* offsets and chunk_size was answered with, whatever the engine held then.
C26_ChallengeChunks ==
    (last.op = "message" /\ last.msg.type = "challenge_request" /\ ValidChallenge(last.msg)) =>
        LET m == last.msg
            seed_bytes == fromhex(m.epoch_seed).bytes
        IN  /\ Len(last.out) = 1
            /\ last.out[1].type = "challenge_response"
            /\ last.out[1].challenge_id = m.challenge_id
            /\ last.out[1].response_time_ms \in ResponseTimes
            /\ Len(last.out[1].chunks) = Len(m.offsets)
            /\ \A i \in DOMAIN m.offsets :
                  /\ last.out[1].chunks[i].valid
                  /\ Len(last.out[1].chunks[i].bytes) = IF m.chunk_size > 0 THEN m.chunk_size ELSE 0
                  /\ \A j \in 1..m.chunk_size :
                        last.out[1].chunks[i].bytes[j] = ChunkByte(seed_bytes, m.offsets[i], j)
            /\ (last.first.seen /\ ChallengeInputs(last.first.msg) = ChallengeInputs(m)) =>
                  last.out[1].chunks = last.first.out[1].chunks

\* C26's case: a challenge of two offsets and chunks of one digest and one
\* byte was answered, after a challenge with the same seed, offsets and
\* chunk size but another challenge_id, handled on another engine.
C26_Witness ==
    /\ last.op = "message" /\ last.msg.type = "challenge_request"
    /\ ValidChallenge(last.msg)
    /\ Len(last.msg.offsets) = 2 /\ last.msg.chunk_size = DigestSize + 1
    /\ last.first.seen
    /\ ChallengeInputs(last.first.msg) = ChallengeInputs(last.msg)
    /\ last.first.msg.challenge_id # last.msg.challenge_id
    /\ last.first.engine # last.before
    /\ Len(last.out[1].chunks) = 2

\* C27: when the handling of a challenge_request raises, the one frame sent
\* for it is a challenge_response with no chunks and response_time_ms = 0.
C27_ChallengeErrorReply ==
    (last.op = "message" /\ last.msg.type = "challenge_request" /\ ~ValidChallenge(last.msg)) =>
        /\ Len(last.out) = 1
        /\ last.out[1].type = "challenge_response"
        /\ last.out[1].chunks = <<>>
        /\ last.out[1].response_time_ms = 0

\* C27's case: a challenge_request whose seed is no hex string was answered
\* with no chunks.
C27_Witness ==
    /\ last.op = "message" /\ last.msg.type = "challenge_request"
    /\ ChallengeRequestFields \subseteq DOMAIN last.msg
    /\ fromhex(last.msg.epoch_seed).raised
    /\ Len(last.out) = 1
    /\ last.out[1].type = "challenge_response"
    /\ last.out[1].chunks = <<>>

(***************************************************************************)
(* Spec: the node.  One action per step of the main coroutine between two   *)
(* await points, and one per thing the surroundings do to it.               *)
(***************************************************************************)
Init ==
    /\ engine = EmptyEngine
    /\ disk = EmptyDisk
    /\ ObsInit
    /\ NodeInit

\* what the wait for the registration response can meet: a JSON object with
\* type "error", a JSON object of another type, JSON that is not an object,
\* text that is not JSON, nothing within 10 s, a closed connection.
HandshakeResponses == {"error", "object", "not_object", "not_json", "timeout", "closed"}

\* everything but an "error" response counted as success.
HandshakeSuccess_any(r) == r # "error"

\* _run_session, lines 183-224: TRUE when the code goes on to start the
\* background tasks.
HandshakeSuccess(r) == r \in {"object", "timeout"}

\* how a session that ends in the handshake is recorded.
HandshakeEnd(r) ==
    IF r = "error" THEN "rejected" ELSE IF r = "closed" THEN "closed" ELSE "handshake_error"

\* except (OSError, asyncio.TimeoutError, InvalidURI): continue
ConnectContinues(o) == o = "os_error"

\* ws.send appends to what was written on the connection.
ws_send_prepend(s, out) == out \o s

ws_send(s, out) == s \o out

\* leaving "async with websockets.connect(...) as ws" closes the connection.
KeepOnExit(o, w) == o

CloseOnExit(o, w) == o \ {w}

\* while self.running (_run_loop)
while_forever(r) == TRUE

while_running(r) == r

\* shutdown(): self.engine.save_all()
shutdown_skip(e, d) == d

shutdown_save(e, d) == save_all(e, d)

RegisterMessage == [type |-> "register", node_id |-> node_id]

\* start(): self.running = True; asyncio.run(self._run_loop())
Start ==
    /\ pc = "init"
    /\ pc' = "loop"
    /\ running' = TRUE
    /\ UNCHANGED <<engineVars, obsVars, url_i, rounds, frames, hist, connVars, taskVars, frameVars>>

\* signal_handler: SIGINT or SIGTERM.
Signal ==
    /\ pc \notin {"init", "shutdown", "exited"}
    /\ running
    /\ running' = FALSE
    /\ UNCHANGED <<engineVars, obsVars, pc, url_i, rounds, frames, hist, connVars, taskVars, frameVars>>

\* _run_loop: the loop condition holds, _connect_and_run begins at the first URL.
RunLoop ==
    /\ pc = "loop"
    /\ while_running(running)
    /\ rounds < MaxRounds
    /\ rounds' = rounds + 1
    /\ url_i' = 1
    /\ pc' = "connect"
    /\ UNCHANGED <<engineVars, obsVars, running, frames, hist, connVars, taskVars, frameVars>>

\* _run_loop returns and asyncio.run cancels every task still alive.
LoopExit ==
    /\ pc = "loop"
    /\ ~while_running(running)
    /\ pc' = "shutdown"
    /\ heartbeat_task' = IF heartbeat_task = "running" THEN "done" ELSE heartbeat_task
    /\ autosave_task' = IF autosave_task = "running" THEN "done" ELSE autosave_task
    /\ leaked' = 0
    /\ UNCHANGED <<engineVars, obsVars, running, url_i, rounds, frames, hist, connVars, frameVars>>

\* _connect_and_run: websockets.connect on urls[url_i] accepts, and the
\* session sends its register message.
ConnectAccept ==
    /\ pc = "connect"
    /\ ws' = rounds
    /\ open' = open \cup {rounds}
    /\ peerClosed' = FALSE
    /\ inbox' = <<>>
    /\ current' = NoFrame
    /\ nrecv' = 0
    /\ sent' = ws_send(<<>>, <<RegisterMessage>>)
    /\ url_i' = 0
    /\ hist' = [hist EXCEPT !.round_end = "none", !.slept = FALSE]
    /\ pc' = "handshake"
    /\ UNCHANGED <<engineVars, obsVars, running, rounds, frames, taskVars>>

\* _connect_and_run: websockets.connect raises.  o is "os_error" (OSError,
\* TimeoutError, InvalidURI) or "invalid_handshake" (any other exception of
\* the opening handshake, e.g. an HTTP 502 answer to the upgrade request).
ConnectFail ==
    /\ pc = "connect"
    /\ \E o \in {"os_error", "invalid_handshake"} :
        IF ConnectContinues(o) /\ url_i < NumUrls
        THEN /\ url_i' = url_i + 1
             /\ UNCHANGED <<pc, hist>>
        ELSE /\ hist' = [hist EXCEPT !.round_end = "connect_failed", !.slept = FALSE]
             /\ pc' = IF running THEN "backoff" ELSE "loop"
             /\ url_i' = IF running THEN url_i ELSE 0
    /\ UNCHANGED <<engineVars, obsVars, running, rounds, frames, connVars, taskVars, frameVars>>

\* _run_loop: await asyncio.sleep(5)
Backoff ==
    /\ pc = "backoff"
    /\ pc' = "loop"
    /\ url_i' = 0
    /\ hist' = [hist EXCEPT !.slept = TRUE]
    /\ UNCHANGED <<engineVars, obsVars, running, rounds, frames, connVars, taskVars, frameVars>>

\* _run_session: the wait for the registration response.
Handshake ==
    /\ pc = "handshake"
    /\ \E r \in HandshakeResponses :
        /\ peerClosed' = (r = "closed")
        /\ open' = IF r = "error" THEN open \ {ws} ELSE open
        /\ IF HandshakeSuccess(r)
           THEN /\ pc' = "registered"
                /\ hist' = [hist EXCEPT !.hs = r]
           ELSE /\ pc' = "teardown"
                /\ hist' = [hist EXCEPT !.hs = r, !.round_end = HandshakeEnd(r), !.slept = FALSE]
    /\ UNCHANGED <<engineVars, obsVars, running, url_i, rounds, frames, ws, taskVars, frameVars>>

\* _run_session: the background tasks are created.
StartTasks ==
    /\ pc = "registered"
    /\ heartbeat_task' = "running"
    /\ autosave_task' = "running"
    /\ leaked' = IF autosave_task = "running" THEN leaked + 1 ELSE leaked
    /\ hist' = [hist EXCEPT !.registered = TRUE]
    /\ pc' = "recv"
    /\ UNCHANGED <<engineVars, obsVars, running, url_i, rounds, frames, connVars, frameVars>>

\* _run_session: while self.running
RecvLoop ==
    /\ pc = "recv"
    /\ IF running
       THEN pc' = "wait" /\ UNCHANGED hist
       ELSE /\ pc' = "teardown"
            /\ hist' = [hist EXCEPT !.round_end = "shutdown", !.slept = FALSE]
    /\ UNCHANGED <<engineVars, obsVars, running, url_i, rounds, frames, connVars, taskVars, frameVars>>

\* ws.recv() returns a frame.
WaitFrame ==
    /\ pc = "wait"
    /\ inbox # <<>>
    /\ current' = Head(inbox)
    /\ inbox' = Tail(inbox)
    /\ nrecv' = nrecv + 1
    /\ pc' = "handle"
    /\ UNCHANGED <<engineVars, obsVars, running, url_i, rounds, frames, hist, connVars, taskVars, sent>>

\* ws.recv() raises ConnectionClosed: break.
WaitClosed ==
    /\ pc = "wait"
    /\ inbox = <<>>
    /\ peerClosed
    /\ pc' = "teardown"
    /\ hist' = [hist EXCEPT !.round_end = "closed", !.slept = FALSE]
    /\ UNCHANGED <<engineVars, obsVars, running, url_i, rounds, frames, connVars, taskVars, frameVars>>

\* the 1 s poll ends without a frame.
WaitTimeout ==
    /\ pc = "wait"
    /\ inbox = <<>>
    /\ ~peerClosed
    /\ IF running
       THEN pc' = "recv" /\ UNCHANGED hist
       ELSE /\ pc' = "teardown"
            /\ hist' = [hist EXCEPT !.round_end = "shutdown", !.slept = FALSE]
    /\ UNCHANGED <<engineVars, obsVars, running, url_i, rounds, frames, connVars, taskVars, frameVars>>

\* _handle_message on the frame read, to its end.
Handle ==
    /\ pc = "handle"
    /\ \E r \in _handle_message(engine, current) :
        /\ engine' = r.engine
        /\ sent' = IF peerClosed THEN sent ELSE ws_send(sent, r.out)
    /\ current' = NoFrame
    /\ pc' = "recv"
    /\ UNCHANGED <<disk, obsVars, running, url_i, rounds, frames, hist, connVars, taskVars, inbox, nrecv>>

\* how the heartbeat task is found when the finally block awaits it: a task
\* that was running has ended by the cancellation ("done"), or had ended
\* before with the RuntimeError that _heartbeat_loop raises again ("failed").
HeartbeatEnds(h) == IF h = "running" THEN {"done", "failed"} ELSE {h}

\* _run_session's finally, the end of the "async with" and _run_loop's
\* finally.  Awaiting a heartbeat task that ended with an exception raises
\* it again, and the rest of the finally block is skipped.
Teardown ==
    /\ pc = "teardown"
    /\ \E h \in HeartbeatEnds(heartbeat_task) :
        /\ heartbeat_task' = h
        /\ autosave_task' = IF h # "failed" /\ autosave_task = "running"
                            THEN "done" ELSE autosave_task
    /\ open' = CloseOnExit(open, ws)
    /\ ws' = 0
    /\ peerClosed' = FALSE
    /\ current' = NoFrame
    /\ inbox' = <<>>
    /\ nrecv' = 0
    /\ sent' = <<>>
    /\ hist' = [hist EXCEPT !.registered = FALSE, !.hs = "none"]
    /\ pc' = "loop"
    /\ UNCHANGED <<engineVars, obsVars, running, url_i, rounds, frames, leaked>>

\* shutdown()
Shutdown ==
    /\ pc = "shutdown"
    /\ running' = FALSE
    /\ disk' = shutdown_save(engine, disk)
    /\ hist' = [hist EXCEPT !.shutdown_saves = @ + 1]
    /\ pc' = "exited"
    /\ UNCHANGED <<engine, obsVars, url_i, rounds, frames, connVars, taskVars, frameVars>>

\* the coordinator sends a request to the registered node; request_id is the
\* frame's number on the connection.
CoordSend ==
    /\ hist.registered
    /\ ~peerClosed
    /\ frames < MaxFrames
    /\ frames' = frames + 1
    /\ \E m \in NodeFrames(IntToStr(nrecv + Len(inbox) + 1)) : inbox' = Append(inbox, m)
    /\ UNCHANGED <<engineVars, obsVars, pc, running, url_i, rounds, hist, connVars, taskVars,
                   current, nrecv, sent>>

\* the coordinator, or the network, closes the connection of a registered node.
CoordClose ==
    /\ hist.registered
    /\ ~peerClosed
    /\ peerClosed' = TRUE
    /\ UNCHANGED <<engineVars, obsVars, pc, running, url_i, rounds, frames, hist, ws, open,
                   taskVars, frameVars>>

\* the places where the main coroutine is suspended in an await, so that the
\* event loop can run another task: websockets.connect, the two ws.recv, the
\* awaits of a handler, asyncio.sleep(5), and the awaits of the finally block.
Suspended ==
    pc \in {"connect", "handshake", "wait", "handle", "backoff", "teardown"}

\* autosave_loop: the interval of a checkpoint task that is alive elapses.
AutosaveTick ==
    /\ autosave_task = "running" \/ leaked > 0
    /\ Suspended
    /\ disk' = save_all(engine, disk)
    /\ UNCHANGED <<engine, obsVars, nodeVars>>

NodeStep ==
    \/ Start
    \/ RunLoop
    \/ LoopExit
    \/ ConnectAccept
    \/ ConnectFail
    \/ Backoff
    \/ Handshake
    \/ StartTasks
    \/ RecvLoop
    \/ WaitFrame
    \/ WaitClosed
    \/ WaitTimeout
    \/ Handle
    \/ Teardown
    \/ Shutdown

Next ==
    \/ NodeStep
    \/ Signal
    \/ CoordSend
    \/ CoordClose
    \/ AutosaveTick

Spec == Init /\ [][Next]_vars

\* the event loop runs the main coroutine whenever it can go on: every
\* wait of the node is bounded by a timeout.
FairSpec == Spec /\ WF_vars(NodeStep)

(***************************************************************************)
(* BootSpec: the node from cli's start on.  MinerNode(config) constructs    *)
(* the engine, sets the attributes and builds the RAM reservation block by  *)
(* block; when it returns, node.start() is called and the node runs as in   *)
(* Spec.                                                                    *)
(***************************************************************************)
BootInit ==
    /\ engine = EmptyEngine
    /\ disk = EmptyDisk
    /\ ObsInit
    /\ pc = "construct"
    /\ hist = [HistInit EXCEPT !.allocated = 0]
    /\ NodeAttrs

\* an allocation failure that is logged and not raised again.
alloc_failure_logged == "init"

\* _initialize_poram_memory, except MemoryError: RuntimeError is raised, the
\* outer except logs and raises again, and the exception leaves __init__ and
\* cli's start, whose call of MinerNode(config) is outside its try.
alloc_failure_raised == "construct_failed"

\* bytearray(chunk_size) and the touch of its pages succeed for one block.
AllocChunk ==
    /\ pc = "construct"
    /\ hist.allocated < max_ram_gb
    /\ hist' = [hist EXCEPT !.allocated = @ + 1]
    /\ UNCHANGED <<engineVars, obsVars, pc, running, url_i, rounds, frames, connVars, taskVars,
                   frameVars>>

\* bytearray(chunk_size) or the touch of a page raises MemoryError.
AllocFail ==
    /\ pc = "construct"
    /\ hist.allocated < max_ram_gb
    /\ hist' = [hist EXCEPT !.alloc_failed = TRUE]
    /\ pc' = alloc_failure_raised
    /\ UNCHANGED <<engineVars, obsVars, running, url_i, rounds, frames, connVars, taskVars,
                   frameVars>>

\* every block is allocated: __init__ returns.
Constructed ==
    /\ pc = "construct"
    /\ hist.allocated = max_ram_gb
    /\ pc' = "init"
    /\ UNCHANGED <<engineVars, obsVars, running, url_i, rounds, frames, hist, connVars, taskVars,
                   frameVars>>

BootNext == AllocChunk \/ AllocFail \/ Constructed \/ Next

BootSpec == BootInit /\ [][BootNext]_vars

\* C28: when the allocation of a block of the RAM reservation fails, the
\* node never starts: it is never running, no connection round is begun, no
\* connection is opened and nothing (no register message) is sent.
C28_NoStartWithoutRam ==
    hist.alloc_failed =>
        /\ ~running
        /\ rounds = 0
        /\ open = {} /\ ws = 0
        /\ sent = <<>>
        /\ ~hist.registered

\* C28's case: the allocation of a block failed after other blocks had been
\* allocated.
C28_Witness ==
    /\ hist.alloc_failed
    /\ hist.allocated > 0 /\ hist.allocated < max_ram_gb
    /\ pc = "construct_failed"

(***************************************************************************)
(* ConcSpec: add_vectors and search calls on one shard, interleaved at      *)
(* their await points.  The event loop runs a coroutine from one await to   *)
(* the next in one step; index.add_items and index.knn_query run on the     *)
(* worker threads, add_items inserting its rows one after the other.        *)
(***************************************************************************)
\* async with lock: the coroutine goes on at once when the lock is free.
lock_ignored(lk, c, ns) == TRUE

lock_is_free(lk, c, ns) == lk[c][ns] = "free"

lock_set(e, c, ns, v) == [e EXCEPT !.locks[c][ns] = v]

ConcShard == _normalize_shard_id(None)

\* the k and the query the searches of ConcSpec are made with.
ConcK == MaxElements + 1

ConcQuery == Axis(1)

ConcInit ==
    /\ engine = EmptyEngine
    /\ disk = EmptyDisk
    /\ ObsInit
    /\ NodeInit

\* the steps of the event loop's thread: a coroutine runs from one await
\* to the next, so nothing but a worker thread runs between the two counts
\* of a heartbeat.
LoopFree == last.op # "counting"

\* add_vectors up to run_in_executor, entered with the lock free.
AddEnter(t, e) ==
    LET e2 == add_prepare(lock_set(e, Coll_c, ConcShard, "held"), Coll_c, ConcShard)
        ids == internal_ids_of(e2.next_ids[Coll_c][ConcShard], Len(ConcBatch(t).doc_ids))
    IN  /\ engine' = e2
        /\ coros' = [coros EXCEPT ![t].pc = "insert", ![t].ids = ids]

\* add_vectors is called: the checks pass, the lock is looked up and taken,
\* or waited for.
AddStart(t) ==
    /\ LoopFree
    /\ coros[t].pc = "start"
    /\ add_check([shape |-> <<Len(ConcBatch(t).rows), EmbeddingDim>>, rows |-> ConcBatch(t).rows],
                 ConcBatch(t).doc_ids) = "ok"
    /\ LET e1 == [engine EXCEPT !.locks = _get_lock(engine.locks, Coll_c, None)]
       IN  IF lock_is_free(e1.locks, Coll_c, ConcShard)
           THEN AddEnter(t, e1)
           ELSE /\ engine' = e1
                /\ coros' = [coros EXCEPT ![t].pc = "acquire", ![t].waited = TRUE]
    /\ UNCHANGED <<disk, last, restarts, nodeVars>>

\* the lock is released and handed to the waiting add_vectors.
AddAcquire(t) ==
    /\ LoopFree
    /\ coros[t].pc = "acquire"
    /\ lock_is_free(engine.locks, Coll_c, ConcShard)
    /\ AddEnter(t, engine)
    /\ UNCHANGED <<disk, last, restarts, nodeVars>>

\* the worker thread inserts the next row of the batch, or add_items raises.
WorkerInsert(t) ==
    /\ coros[t].pc = "insert"
    /\ LET i == coros[t].i + 1
           index == engine.indices[Coll_c][ConcShard]
       IN  IF add_item_fits(index, coros[t].ids[i])
           THEN /\ engine' = [engine EXCEPT !.indices[Coll_c][ConcShard] =
                                  add_item(index, coros[t].ids[i], ConcBatch(t).rows[i])]
                /\ coros' = [coros EXCEPT ![t].i = i,
                                          ![t].pc = IF i = Len(coros[t].ids) THEN "inserted" ELSE "insert"]
           ELSE /\ coros' = [coros EXCEPT ![t].pc = "raised"]
                /\ UNCHANGED engine
    /\ UNCHANGED <<disk, last, restarts, nodeVars>>

\* add_vectors after the insert: the id map, the counter, and the lock released.
AddFinish(t) ==
    /\ LoopFree
    /\ coros[t].pc = "inserted"
    /\ engine' = lock_set(add_finish(engine, Coll_c, ConcShard, coros[t].ids, ConcBatch(t).doc_ids),
                          Coll_c, ConcShard, "free")
    /\ coros' = [coros EXCEPT ![t].pc = "done"]
    /\ UNCHANGED <<disk, last, restarts, nodeVars>>

\* the exception of add_items leaves "async with lock".
AddRaise(t) ==
    /\ LoopFree
    /\ coros[t].pc = "raised"
    /\ engine' = lock_set(engine, Coll_c, ConcShard, "free")
    /\ coros' = [coros EXCEPT ![t].pc = "failed"]
    /\ UNCHANGED <<disk, last, restarts, nodeVars>>

\* search inside the lock, up to run_in_executor.
SearchEnter(t, e) ==
    IF get_current_count(e.indices[Coll_c][ConcShard]) = 0
    THEN /\ engine' = e
         /\ coros' = [coros EXCEPT ![t].pc = "done"]
    ELSE /\ engine' = lock_set(e, Coll_c, ConcShard, "held")
         /\ coros' = [coros EXCEPT ![t].pc = "query",
                          ![t].k = Min2(ConcK, get_current_count(e.indices[Coll_c][ConcShard]))]

\* search is called: the early returns, then the lock is taken or waited for.
SearchStart(t) ==
    /\ LoopFree
    /\ coros[t].pc = "start"
    /\ IF search_path(engine, Coll_c, ConcQuery, ConcK, None) \in {"no_collection", "no_shard", "k_not_positive"}
       THEN /\ coros' = [coros EXCEPT ![t].pc = "done"]
            /\ UNCHANGED engine
       ELSE LET e1 == [engine EXCEPT !.locks = _get_lock(engine.locks, Coll_c, None)]
            IN  IF lock_is_free(e1.locks, Coll_c, ConcShard)
                THEN SearchEnter(t, e1)
                ELSE /\ engine' = e1
                     /\ coros' = [coros EXCEPT ![t].pc = "acquire", ![t].waited = TRUE]
    /\ UNCHANGED <<disk, last, restarts, nodeVars>>

\* the lock is released and handed to the waiting search.
SearchAcquire(t) ==
    /\ LoopFree
    /\ coros[t].pc = "acquire"
    /\ lock_is_free(engine.locks, Coll_c, ConcShard)
    /\ SearchEnter(t, engine)
    /\ UNCHANGED <<disk, last, restarts, nodeVars>>

\* the worker thread runs knn_query on the index as it is then.
WorkerQuery(t) ==
    /\ coros[t].pc = "query"
    /\ \E ls \in knn_query(engine.indices[Coll_c][ConcShard], Normalize(ConcQuery), coros[t].k) :
           coros' = [coros EXCEPT ![t].pc = "queried", ![t].labels = ls]
    /\ UNCHANGED <<engineVars, last, restarts, nodeVars>>

\* search after the query: the labels are mapped to doc_ids, the results
\* sorted, the lock released.
SearchConvert(t) ==
    /\ LoopFree
    /\ coros[t].pc = "queried"
    /\ coros' = [coros EXCEPT ![t].pc = "done",
                     ![t].results = sort_results(
                         to_results(coros[t].labels, engine.indices[Coll_c][ConcShard],
                                    engine.id_maps[Coll_c][ConcShard], Normalize(ConcQuery)))]
    /\ engine' = lock_set(engine, Coll_c, ConcShard, "free")
    /\ UNCHANGED <<disk, last, restarts, nodeVars>>

\* whether a worker thread is inside index.add_items on the shard.
Inserting == \E t \in Adders : coros[t].pc = "insert"

\* what save_all leaves on disk when it runs on the event loop: the files
\* save_all writes from the engine as it stands; and, while a worker thread
\* is inside add_items on the index that save_index reads (hnswlib takes no
\* lock for it), also an index file that cannot be read back.
checkpoint_disks(e, d) ==
    {save_all(e, d)} \cup
        IF Inserting
        THEN {[save_all(e, d) EXCEPT !.files[<<Coll_c, ShardBinName(ConcShard)>>] = [kind |-> "partial"]]}
        ELSE {}

\* autosave_loop: the interval elapses and save_all runs, between two steps
\* of the other coroutines and without any shard lock.
ConcCheckpoint ==
    /\ LoopFree
    /\ Coll_c \in DOMAIN engine.indices
    /\ \E d \in checkpoint_disks(engine, disk) :
           /\ d # disk
           /\ disk' = d
    /\ UNCHANGED <<engine, last, restarts, coros, nodeVars>>

\* HeartbeatMessage(node_id, vectors_stored, bytes_used, timestamp); the
\* timestamp is left out.
HeartbeatMessage(vectors_stored, bytes_used) ==
    [type |-> "heartbeat", node_id |-> node_id,
     vectors_stored |-> vectors_stored, bytes_used |-> bytes_used]

\* _heartbeat_loop builds its frame: vectors_stored=get_total_vectors() is
\* evaluated first, on the event loop's thread, while a worker thread may be
\* inside add_items.
HeartbeatCount ==
    /\ last.op \in {"init", "heartbeat"}
    /\ last' = [op |-> "counting", vectors_stored |-> get_total_vectors(engine),
                racing |-> Inserting]
    /\ UNCHANGED <<engineVars, restarts, coros, nodeVars>>

\* ... then bytes_used=get_bytes_used(), which counts the vectors again,
\* and the frame is sent.
HeartbeatSend ==
    /\ last.op = "counting"
    /\ last' = [op |-> "heartbeat", racing |-> last.racing,
                frame |-> HeartbeatMessage(last.vectors_stored, get_bytes_used(engine))]
    /\ UNCHANGED <<engineVars, restarts, coros, nodeVars>>

ConcNext ==
    \/ HeartbeatCount
    \/ HeartbeatSend
    \/ ConcCheckpoint
    \/ \E t \in Adders : AddStart(t)
    \/ \E t \in Adders : AddAcquire(t)
    \/ \E t \in Adders : WorkerInsert(t)
    \/ \E t \in Adders : AddFinish(t)
    \/ \E t \in Adders : AddRaise(t)
    \/ \E t \in Searchers : SearchStart(t)
    \/ \E t \in Searchers : SearchAcquire(t)
    \/ \E t \in Searchers : WorkerQuery(t)
    \/ \E t \in Searchers : SearchConvert(t)

ConcSpec == ConcInit /\ [][ConcNext]_vars

(***************************************************************************)
(* Properties of ConcSpec.                                                  *)
(***************************************************************************)
\* the doc_ids a finished search returned.
ResultDocs(t) == {coros[t].results[i].doc_id : i \in DOMAIN coros[t].results}

\* the labels knn_query returned to a search.
LabelsSeen(t) == {coros[t].labels[i] : i \in DOMAIN coros[t].labels}

\* C1: a search on the shard observes of every batch that add_vectors
\* inserted with success either nothing (none of its labels in the index,
\* none of its doc_ids) or all n pairs (every label and every doc_id), never
\* a part of it.
C1_BatchAtomic ==
    \A s \in Searchers : \A a \in Adders :
        (coros[s].pc = "done" /\ coros[a].pc = "done") =>
            LET n == Len(ConcBatch(a).doc_ids)
                seen == {i \in 1..n : coros[a].ids[i] \in LabelsSeen(s)}
                mapped == {i \in 1..n : ConcBatch(a).doc_ids[i] \in ResultDocs(s)}
            IN  \/ seen = {} /\ mapped = {}
                \/ seen = 1..n /\ mapped = 1..n

\* a search that had to wait for the lock while the two-row batch was being
\* inserted has returned, the batch having succeeded.
C1_Witness ==
    \E s \in Searchers :
        /\ coros[s].pc = "done"
        /\ coros[s].waited
        /\ coros[1].pc = "done"
        /\ {"a", "b"} \subseteq ResultDocs(s)

\* the internal ids an index file holds, and those its map file names.
FileLabels(d, c, shard_id) == DOMAIN d.files[<<c, ShardBinName(shard_id)>>].items

FileMapIds(d, c, shard_id) == {StrToInt(k) : k \in DOMAIN d.files[<<c, ShardMapName(shard_id)>>].id_map}

\* C31: a checkpoint never persists a part of a batch: the index file and
\* the map file that a save has written for a shard hold the same internal
\* ids, and next_id counts them.  (Stated for the runs in which no insert
\* has failed, so that only the interleaving is in question.)
C31_CheckpointWhole ==
    (/\ <<Coll_c, ShardBinName(ConcShard)>> \in DOMAIN disk.files
     /\ \A t \in Adders : coros[t].pc \notin {"raised", "failed"}) =>
        /\ disk.files[<<Coll_c, ShardBinName(ConcShard)>>].kind = "bin"
        /\ FileLabels(disk, Coll_c, ConcShard) = FileMapIds(disk, Coll_c, ConcShard)
        /\ disk.files[<<Coll_c, ShardMapName(ConcShard)>>].next_id
               = Cardinality(FileLabels(disk, Coll_c, ConcShard))

\* C31's case: the checkpoint ran while the worker thread had inserted the
\* first row of the two-row batch, and wrote both files.
C31_Witness ==
    /\ coros[1].pc = "insert" /\ coros[1].i = 1
    /\ <<Coll_c, ShardMapName(ConcShard)>> \in DOMAIN disk.files
    /\ disk.files[<<Coll_c, ShardBinName(ConcShard)>>].kind = "bin"
    /\ FileLabels(disk, Coll_c, ConcShard) = DOMAIN engine.indices[Coll_c][ConcShard]
    /\ Cardinality(FileLabels(disk, Coll_c, ConcShard)) = 1
    /\ FileMapIds(disk, Coll_c, ConcShard) = {}

\* C35: every heartbeat frame is a consistent snapshot: its bytes_used is
\* its vectors_stored * D * 4, also when it is built while add_items runs on
\* a worker thread.
C35_HeartbeatSnapshot ==
    last.op = "heartbeat" =>
        last.frame.bytes_used = last.frame.vectors_stored * EmbeddingDim * 4

\* C35's case: a heartbeat was sent that was built while a worker thread
\* was inserting a batch, the shard holding vectors.
C35_Witness ==
    /\ last.op = "heartbeat"
    /\ last.racing
    /\ last.frame.vectors_stored > 0

(***************************************************************************)
(* LockSpec: add_vectors and search calls on two shards of one collection,  *)
(* seen from their locks only.  Each call looks its lock up, enters         *)
(* "async with lock" at once or after waiting, is suspended inside it while *)
(* a worker thread works, and leaves it by a return or by an exception.     *)
(***************************************************************************)
\* the calls: what is called and the shard_id it is called with.
LockOps ==
    <<[op |-> "add_vectors", shard_id |-> None],
      [op |-> "search", shard_id |-> S_empty],
      [op |-> "add_vectors", shard_id |-> Shard_x],
      [op |-> "search", shard_id |-> Shard_x],
      [op |-> "search", shard_id |-> Shard_shard_x]>>

\* the engine the calls are made on: one vector in the shards "default" and
\* "x" of collection "c".
LockEngine ==
    add_vectors(add_vectors(EmptyEngine, Coll_c, ArrayOf(<<Axis(1)>>), <<"a">>, None).engine,
                Coll_c, ArrayOf(<<Axis(2)>>), <<"b">>, Shard_x).engine

LockInit ==
    /\ engine = LockEngine
    /\ disk = EmptyDisk
    /\ last = [op |-> "init"]
    /\ restarts = 0
    /\ coros = [t \in DOMAIN LockOps |-> [pc |-> "start", waited |-> FALSE]]
    /\ NodeInit

\* "async with lock" is left by an exception and the lock stays held.
lock_exit_on_return(e, c, ns, how) ==
    IF how = "return" THEN lock_set(e, c, ns, "free") ELSE e

\* "async with lock" is left, by a return or by an exception: the lock is
\* released.
lock_exit(e, c, ns, how) == lock_set(e, c, ns, "free")

\* whether the call returns before it looks for its lock: search on a
\* collection or a shard the engine does not hold.
ReturnsEarly(t) ==
    /\ LockOps[t].op = "search"
    /\ search_path(engine, Coll_c, ConcQuery, 1, LockOps[t].shard_id) \in {"no_collection", "no_shard", "k_not_positive"}

\* the call is made: the lock is looked up and taken, or waited for.
LockCall(t) ==
    /\ coros[t].pc = "start"
    /\ IF ReturnsEarly(t)
       THEN /\ coros' = [coros EXCEPT ![t].pc = "done"]
            /\ UNCHANGED engine
       ELSE LET ns == _normalize_shard_id(LockOps[t].shard_id)
                e1 == [engine EXCEPT !.locks = _get_lock(engine.locks, Coll_c, LockOps[t].shard_id)]
            IN  IF lock_is_free(e1.locks, Coll_c, ns)
                THEN /\ engine' = lock_set(e1, Coll_c, ns, "held")
                     /\ coros' = [coros EXCEPT ![t].pc = "inside"]
                ELSE /\ engine' = e1
                     /\ coros' = [coros EXCEPT ![t].pc = "acquire", ![t].waited = TRUE]
    /\ UNCHANGED <<disk, last, restarts, nodeVars>>

\* the lock is released and handed to the waiting call.
LockAcquire(t) ==
    /\ coros[t].pc = "acquire"
    /\ lock_is_free(engine.locks, Coll_c, _normalize_shard_id(LockOps[t].shard_id))
    /\ engine' = lock_set(engine, Coll_c, _normalize_shard_id(LockOps[t].shard_id), "held")
    /\ coros' = [coros EXCEPT ![t].pc = "inside"]
    /\ UNCHANGED <<disk, last, restarts, nodeVars>>

\* the body of "async with lock" ends, by a return or by an exception.
LockLeave(t) ==
    /\ coros[t].pc = "inside"
    /\ \E how \in {"return", "raise"} :
          /\ engine' = lock_exit(engine, Coll_c, _normalize_shard_id(LockOps[t].shard_id), how)
          /\ coros' = [coros EXCEPT ![t].pc = IF how = "return" THEN "done" ELSE "failed"]
    /\ UNCHANGED <<disk, last, restarts, nodeVars>>

LockNext == \E t \in DOMAIN LockOps : LockCall(t) \/ LockAcquire(t) \/ LockLeave(t)

LockSpec == LockInit /\ [][LockNext]_vars

\* the calls inside the critical section of the shard ns.
InsideOf(ns) ==
    {t \in DOMAIN LockOps : coros[t].pc = "inside" /\ _normalize_shard_id(LockOps[t].shard_id) = ns}

\* C36: a call takes the lock of the (collection, shard) it addresses and
\* no other; the calls for one shard use one lock; at most one call is
\* inside the critical section of a shard; the lock is free whenever no
\* call is inside, by whatever exit the last one left; a call waits only
\* while a call on the same shard is inside, so a call on another shard
\* never blocks it and no set of calls waits for ever.
C36_ShardLocks ==
    /\ \A c \in DOMAIN engine.locks : \A ns \in DOMAIN engine.locks[c] :
           /\ c = Coll_c
           /\ ns \notin {None, S_empty}
           /\ \A t \in DOMAIN LockOps :
                  ReturnsEarly(t) => ns # _normalize_shard_id(LockOps[t].shard_id)
           /\ Cardinality(InsideOf(ns)) <= 1
           /\ engine.locks[c][ns] = "held" <=> InsideOf(ns) # {}
    /\ \A t \in DOMAIN LockOps :
           /\ coros[t].pc \in {"acquire", "inside"} =>
                  /\ Coll_c \in DOMAIN engine.locks
                  /\ _normalize_shard_id(LockOps[t].shard_id) \in DOMAIN engine.locks[Coll_c]
           /\ coros[t].pc = "acquire" =>
                  \/ ENABLED LockAcquire(t)
                  \/ InsideOf(_normalize_shard_id(LockOps[t].shard_id)) # {}
           /\ coros[t].pc = "inside" =>
                  InsideOf(_normalize_shard_id(LockOps[t].shard_id)) = {t}

\* C36's case: a call on shard "x" is inside its critical section while a
\* call on shard "default" is inside its own and another waits for it, after
\* a call on shard "default" had left by an exception.
C36_Witness ==
    /\ \E t, u, w \in DOMAIN LockOps :
          /\ coros[t].pc = "inside" /\ coros[u].pc = "inside" /\ t # u
          /\ coros[u].waited
          /\ coros[w].pc = "failed"
          /\ LockOps[w].shard_id = None /\ LockOps[u].shard_id = S_empty
    /\ coros[4].pc = "acquire"

(***************************************************************************)
(* Properties of Spec and FairSpec.                                         *)
(***************************************************************************)
ResponseTypes == {"store_response", "search_response", "challenge_response", "error"}

IsResponse(f) == f.type \in ResponseTypes

\* the request_ids of the response frames written on the connection, in the
\* order written, as the numbers they spell.
ResponseIds(s) ==
    LET rs == SelectSeq(s, IsResponse) IN [i \in DOMAIN rs |-> StrToInt(rs[i].request_id)]

\* C2: on a connection the responses are written in the order in which the
\* requests were received: the ids of the responses written are increasing,
\* none answers a frame not yet read, and while the connection is open every
\* frame read before the one in the handler has its response written.
C2_ResponseOrder ==
    LET ids == ResponseIds(sent)
    IN  /\ \A i, j \in DOMAIN ids : i < j => ids[i] < ids[j]
        /\ \A i \in DOMAIN ids : ids[i] <= nrecv
        /\ pc = "handle" => \A i \in DOMAIN ids : ids[i] < nrecv
        /\ ~peerClosed => Len(ids) = IF pc = "handle" THEN nrecv - 1 ELSE nrecv

\* two requests were read and answered on one open connection.
C2_Witness == ~peerClosed /\ nrecv = 2 /\ ResponseIds(sent) = <<1, 2>>

\* C3: the node holds at most one connection open, the one of the session
\* in progress, and a connection attempt is made only with no connection
\* open and no session registered.
C3_OneSession ==
    /\ Cardinality(open) <= 1
    /\ open \subseteq {ws}
    /\ pc \in {"loop", "connect", "backoff"} => open = {} /\ ~hist.registered

\* a second connection is open after the first session has ended.
C3_Witness == rounds = 2 /\ open = {2} /\ hist.registered

C7_BackoffAfterSessionEnd ==
    (pc = "connect" /\ running /\ hist.round_end \in {"rejected", "closed", "handshake_error"}) =>
        hist.slept

\* C7's case: a second round begins after a rejected registration.
C7_Witness == pc = "connect" /\ running /\ hist.round_end = "rejected"

C9_AllUrlsTried == pc = "backoff" => url_i = NumUrls

\* C9's case: the round failed and the node is about to sleep.
C9_Witness == pc = "backoff" /\ hist.round_end = "connect_failed"


\* the heartbeat tasks and the checkpoint tasks alive.
AliveHeartbeatTasks == IF heartbeat_task = "running" THEN 1 ELSE 0

AliveCheckpointTasks == leaked + IF autosave_task = "running" THEN 1 ELSE 0

\* C30: the background tasks do not outlive their session: when the node is
\* out of a session (at the head of the reconnect loop, connecting, in the
\* 5 s sleep, or past the loop) no heartbeat task and no checkpoint task is
\* alive, and at any time at most one of each is.
C30_TasksEndWithSession ==
    /\ AliveHeartbeatTasks <= 1
    /\ AliveCheckpointTasks <= 1
    /\ pc \in {"loop", "connect", "backoff", "handshake", "registered"} =>
           AliveHeartbeatTasks = 0 /\ AliveCheckpointTasks = 0

\* C30's case: a session whose heartbeat task had ended with an exception
\* is over and the next session has started its tasks.
C30_Witness ==
    /\ rounds = 2
    /\ pc = "wait"
    /\ heartbeat_task = "running"
    /\ leaked = 1


\* C38: every frame received by a registered node is answered with exactly
\* one frame, a store_response, search_response, challenge_response or
\* error: a valid request, a frame of unknown type, a text that is no JSON
\* and a JSON value that is no object alike.
C38_OneReply ==
    /\ last.op \in {"message", "raw"} =>
           Len(last.out) = 1 /\ last.out[1].type \in ResponseTypes
    /\ last.op \in {"store", "search"} => last.response.type \in ResponseTypes

\* C38's case: a frame whose text is a JSON array was handled by an engine
\* that holds vectors.
C38_Witness ==
    /\ last.op = "raw"
    /\ json_loads(last.msg) = "array"
    /\ get_total_vectors(engine) > 0


\* a register message is written by the step.
RegisterSent == sent' # sent /\ Len(sent') > 0 /\ sent'[Len(sent')] = RegisterMessage

\* C39: once a signal has cleared self.running the node opens no connection
\* and sends no register message, wherever it stood when the signal came.
C39_NoConnectAfterSignal ==
    [][(pc # "init" /\ ~running) => (open' \subseteq open /\ ~RegisterSent)]_vars

\* C39's case: the signal has come while _connect_and_run is trying its
\* URLs, and the connection attempt can still succeed.
C39_Witness ==
    /\ ~running
    /\ pc = "connect"
    /\ open = {}
    /\ ENABLED ConnectAccept

(***************************************************************************)
(* TimerSpec: the checkpoint timers over the sessions of a process that     *)
(* keeps running.  coros holds, for every autosave_loop coroutine alive,    *)
(* how long its asyncio.sleep(interval_seconds) has lasted, in units of     *)
(* interval_seconds / IntervalUnits; the task self.autosave_task refers to  *)
(* is the last one.                                                         *)
(***************************************************************************)
IntervalUnits == 2

\* how many checkpoint tasks are followed after their attribute was lost.
MaxLeaked == 1

TimerInit ==
    /\ engine = EmptyEngine
    /\ disk = EmptyDisk
    /\ last = [op |-> "init", unsaved |-> FALSE]
    /\ restarts = 0
    /\ coros = <<>>
    /\ NodeInit

\* _handle_store answered the batch with status=ok.
AckedOk(out) ==
    /\ Len(out) = 1
    /\ out[1].type = "store_response"
    /\ out[1].status = "ok"

\* _connect_and_run and _run_session up to the receive loop: the connection
\* is made, the registration passes and the two background tasks are
\* created, the checkpoint task at the start of its first sleep.
SessionBegin ==
    /\ pc = "loop"
    /\ while_running(running)
    /\ heartbeat_task' = "running"
    /\ autosave_task' = "running"
    /\ leaked' = IF autosave_task = "running" THEN leaked + 1 ELSE leaked
    /\ coros' = Append(coros, 0)
    /\ pc' = "recv"
    /\ UNCHANGED <<engineVars, last, restarts, running, url_i, rounds, frames, hist,
                   connVars, frameVars>>

\* the receive loop reads a request and _handle_message answers it.
SessionHandle ==
    /\ pc = "recv"
    /\ frames < MaxFrames
    /\ frames' = frames + 1
    /\ \E m \in NodeFrames(IntToStr(frames + 1)) :
        \E r \in _handle_message(engine, m) :
            /\ engine' = r.engine
            /\ last' = [op |-> "message",
                        unsaved |-> last.unsaved \/ AckedOk(r.out)]
    /\ UNCHANGED <<disk, restarts, coros, pc, running, url_i, rounds, hist,
                   connVars, taskVars, frameVars>>

\* a timer whose sleep has lasted interval_seconds.
Elapsed(t) == t + 1 = IntervalUnits

\* one unit of time passes for every autosave_loop alive; a loop whose sleep
\* ends calls save_all and sleeps again.
TimePasses ==
    /\ pc \in {"loop", "recv"}
    /\ coros # <<>>
    /\ coros' = [i \in DOMAIN coros |-> IF Elapsed(coros[i]) THEN 0 ELSE coros[i] + 1]
    /\ IF \E i \in DOMAIN coros : Elapsed(coros[i])
       THEN /\ disk' = save_all(engine, disk)
            /\ last' = [op |-> "save_all", unsaved |-> FALSE]
       ELSE UNCHANGED <<disk, last>>
    /\ UNCHANGED <<engine, restarts, nodeVars>>

\* the receive loop ends (the connection is closed, or self.running was
\* cleared) and the finally block of _run_session runs: the checkpoint task
\* is cancelled unless awaiting the heartbeat task raised.
SessionEnd ==
    /\ pc = "recv"
    /\ \E h \in HeartbeatEnds(heartbeat_task) :
        /\ h = "failed" => leaked < MaxLeaked
        /\ heartbeat_task' = h
        /\ IF h # "failed" /\ autosave_task = "running"
           THEN /\ autosave_task' = "done"
                /\ coros' = SubSeq(coros, 1, Len(coros) - 1)
           ELSE UNCHANGED <<autosave_task, coros>>
    /\ pc' = "loop"
    /\ UNCHANGED <<engineVars, last, restarts, running, url_i, rounds, frames, hist,
                   connVars, leaked, frameVars>>

\* _run_loop returns, asyncio.run cancels the tasks still alive and
\* shutdown() saves.
ProcessExit ==
    /\ pc = "loop"
    /\ ~while_running(running)
    /\ disk' = shutdown_save(engine, disk)
    /\ last' = [op |-> "shutdown", unsaved |-> FALSE]
    /\ coros' = <<>>
    /\ heartbeat_task' = IF heartbeat_task = "running" THEN "done" ELSE heartbeat_task
    /\ autosave_task' = IF autosave_task = "running" THEN "done" ELSE autosave_task
    /\ leaked' = 0
    /\ pc' = "exited"
    /\ UNCHANGED <<engine, restarts, running, url_i, rounds, frames, hist, connVars, frameVars>>

\* the steps the event loop takes by itself.
TimerStep ==
    \/ Start
    \/ SessionBegin
    \/ ProcessExit

TimerNext ==
    \/ TimerStep
    \/ Signal
    \/ SessionHandle
    \/ SessionEnd
    \/ TimePasses

\* time goes on whenever a timer is there to measure it, also when the
\* timers are cancelled and created again and again; and the main coroutine
\* runs whenever it can: it connects again after a session and leaves when
\* self.running is cleared.
TimerSpec == TimerInit /\ [][TimerNext]_vars /\ SF_vars(TimePasses) /\ WF_vars(TimerStep)

\* C40: a batch acknowledged with status=ok is written by a save_all of a
\* checkpoint task as long as the process keeps running, however long the
\* sessions last.
C40_AckedEventuallySaved ==
    (last.unsaved /\ running) ~> (~last.unsaved \/ ~running)

\* C40's case: a batch was acknowledged, the session it came in has ended
\* before the interval elapsed, and no checkpoint task is alive.
C40_Witness ==
    /\ last.unsaved
    /\ running
    /\ pc = "loop"
    /\ coros = <<>>
    /\ disk = EmptyDisk


=============================================================================
